---- MODULE Spec2Model ----
(***************************************************************************)
(* Polling / reconciliation engine of the marketing-plan and               *)
(* competitor-stack client:                                                *)
(*   - usePolling            (src/src/services/marketingPlanService.ts)    *)
(*   - useMarketingPlanData  (src/unnamed/part_008)                        *)
(*   - response classifiers  (src/src/services/api.ts)                     *)
(*   - CompetitorStackPage   (src/src/pages/CompetitorStackPage.tsx)       *)
(* The hooks run on one JavaScript thread: every action below is one task  *)
(* of the event loop (a call from the caller, a timer callback, or the     *)
(* continuation of an awaited promise) and is therefore atomic.            *)
(***************************************************************************)
EXTENDS Integers, Sequences, FiniteSets, TLC

(***************************************************************************)
(* Bounds of the model                                                     *)
(***************************************************************************)
\* largest value of options.maxAttempts that Init draws (the caller passes 30)
MaxAttemptsBound == 2
\* number of pollingFn invocations that may be pending at the same time
MaxPending == 2
\* restartPolling grace timers that may be pending at the same time
MaxGrace == 1

(***************************************************************************)
(* JSON values seen by the hooks                                           *)
(***************************************************************************)
NULL == [type |-> "null"]

\* a string is a sequence of word tokens; String.prototype.includes is the
\* contiguous-subsequence test
Includes(s, sub) ==
  \E i \in 0..(Len(s) - Len(sub)) :
    \A j \in 1..Len(sub) : s[i + j] = sub[j]

toLowerCase(s) ==
  [i \in 1..Len(s) |->
     CASE s[i] = "I'm" -> "i'm"
       [] s[i] = "Sorry" -> "sorry"
       [] s[i] = "No" -> "no"
       [] s[i] = "Agent" -> "agent"
       [] s[i] = "Response" -> "response"
       [] s[i] = "Found" -> "found"
       [] s[i] = "Unable" -> "unable"
       [] s[i] = "Server" -> "server"
       [] s[i] = "Error" -> "error"
       [] s[i] = "Not" -> "not"
       [] s[i] = "HTTP:" -> "http:"
       [] s[i] = "WWW." -> "www."
       [] s[i] = "X" -> "x"
       [] OTHER -> s[i]]

\* response.response.data.content
NoContent == [type |-> "undefined", text |-> <<>>, nkeys |-> 0,
              summary |-> "absent", programs |-> "absent", details |-> FALSE]
StrContent(t) == [type |-> "string", text |-> t, nkeys |-> Len(t),
                  summary |-> "absent", programs |-> "absent", details |-> FALSE]
ObjContent(t, n, s, p, d) == [type |-> "object", text |-> t, nkeys |-> n,
                              summary |-> s, programs |-> p, details |-> d]

\* a response of the analysis-answer endpoint
Resp(st, state, c, err) ==
  [type |-> "object", status |-> st, state |-> state, content |-> c, error |-> err]

ErrorOf(msg) == [type |-> "error", message |-> msg]

(***************************************************************************)
(* usePolling: refs, React state and options. sessionIdRef and             *)
(* pollHistoryRef only feed the debug log and getPollHistory and are left  *)
(* out.                                                                    *)
(***************************************************************************)
VARIABLES
  isMountedRef,             \* isMountedRef.current
  timerRef,                 \* the pending timer of timerRef.current, or NoTimer
  isActivePollingRef,       \* isActivePollingRef.current
  hasSuccessfulResponseRef, \* hasSuccessfulResponseRef.current
  isLocked,                 \* isLocked.current
  lastSuccessDataRef,       \* lastSuccessDataRef.current
  state,                    \* PollingState
  pending,                  \* invocations of pollingFn that have not settled
  graceTimers,              \* pending 100 ms timers of restartPolling
  optMaxAttempts,           \* options.maxAttempts
  calls,                    \* what the current session has called so far
  stoppedWithTimer          \* history: stopPolling or resetPolling found a timer
                            \* pending and startPolling was not called since

pollVars == <<isMountedRef, timerRef, isActivePollingRef, hasSuccessfulResponseRef,
              isLocked, lastSuccessDataRef, state,
              pending, graceTimers, calls>>

NoTimer == [kind |-> "none", attempt |-> 0]
InitialTimer == [kind |-> "initial", attempt |-> 1]
NextTimer(n) == [kind |-> "next", attempt |-> n]

IdleState == [isPolling |-> FALSE, attempt |-> 0, lastPollTime |-> 0,
              data |-> NULL, error |-> NULL, status |-> "idle"]

\* calls of the options' callbacks and of pollingFn since the session began;
\* predicateFalse: options.shouldContinuePolling() has answered false
NoCalls == [onSuccess |-> 0, onError |-> 0, onMaxAttemptsReached |-> 0,
            onSuccessArg |-> NULL, pollingFn |-> 0, predicateFalse |-> FALSE]

\* the hook instance as one record, so that a handler is a function on it
Hook ==
  [isMounted |-> isMountedRef, timer |-> timerRef, isActive |-> isActivePollingRef,
   hasSuccessfulResponse |-> hasSuccessfulResponseRef, isLocked |-> isLocked,
   lastSuccessData |-> lastSuccessDataRef,
   state |-> state, pending |-> pending,
   grace |-> graceTimers, calls |-> calls, blocked |-> FALSE]

Commit(h) ==
  /\ ~h.blocked
  /\ isMountedRef' = h.isMounted
  /\ timerRef' = h.timer
  /\ isActivePollingRef' = h.isActive
  /\ hasSuccessfulResponseRef' = h.hasSuccessfulResponse
  /\ isLocked' = h.isLocked
  /\ lastSuccessDataRef' = h.lastSuccessData
  /\ state' = h.state
  /\ pending' = h.pending
  /\ graceTimers' = h.grace
  /\ calls' = h.calls

clearTimer(h) == [h EXCEPT !.timer = NoTimer]

\* a stopPolling that updates the snapshot and forgets the timer and the refs
stopPollingStateOnly(h) ==
  IF h.isMounted
    THEN [h EXCEPT !.state.isPolling = FALSE,
                   !.state.status = IF h.hasSuccessfulResponse
                                      THEN "success" ELSE "idle"]
    ELSE h

stopPolling(h) ==
  LET c == clearTimer(h)
      s == IF c.isMounted
             THEN [c EXCEPT !.state.isPolling = FALSE,
                            !.state.status = IF c.hasSuccessfulResponse
                                               THEN "success" ELSE "idle"]
             ELSE c
  IN [s EXCEPT !.isActive = FALSE, !.isLocked = FALSE]

isCompletedResponse(r) ==
  /\ r.type = "object"
  /\ \/ (r.status = "succeeded" /\ r.state = "completed")
     \/ r.state = "completed"
     \/ /\ \/ r.content.type = "object"
           \/ (r.content.type = "string" /\ r.content.text # <<>>)
        /\ r.content.nkeys > 0

\* pending[n]: the invocations made by executePoll(n) that have not settled
Attempts == 1..(MaxAttemptsBound + 2)
NoPending == [n \in Attempts |-> 0]
RECURSIVE SumTo(_, _)
SumTo(p, n) == IF n = 0 THEN 0 ELSE p[n] + SumTo(p, n - 1)
NumPending(p) == SumTo(p, MaxAttemptsBound + 2)

\* the branch of executePoll taken when shouldContinuePolling() is false
stopByPredicate(h) == stopPolling([h EXCEPT !.calls.predicateFalse = TRUE])

\* an executePoll that arms the timer of the next attempt when it issues the
\* fetch, instead of when the fetch settles
executePollFixedRate(h, attempt, cont) ==
  IF h.isLocked THEN h
  ELSE IF ~h.isMounted \/ ~h.isActive THEN [h EXCEPT !.isLocked = FALSE]
  ELSE
    LET p == [h EXCEPT !.isLocked = TRUE]
    IN IF ~cont THEN stopByPredicate(p)
       ELSE IF NumPending(h.pending) >= MaxPending \/ attempt + 1 \notin Attempts
         THEN [h EXCEPT !.blocked = TRUE]
       ELSE [p EXCEPT !.pending[attempt] = @ + 1,
                      !.calls.pollingFn = @ + 1,
                      !.timer = NextTimer(attempt + 1)]

\* executePoll up to its await: lock, guards, shouldContinuePolling (which
\* answers cont), then the invocation of pollingFnRef.current()
executePoll(h, attempt, cont) ==
  IF h.isLocked THEN h
  ELSE IF ~h.isMounted \/ ~h.isActive THEN [h EXCEPT !.isLocked = FALSE]
  ELSE
    LET p == [h EXCEPT !.isLocked = TRUE]
    IN IF ~cont THEN stopByPredicate(p)
       ELSE IF NumPending(h.pending) >= MaxPending THEN [h EXCEPT !.blocked = TRUE]
       ELSE [p EXCEPT !.pending[attempt] = @ + 1,
                      !.calls.pollingFn = @ + 1]

\* the callback of the timer that executePoll sets for the next attempt
nextAttemptCallback(h, attempt, cont) ==
  IF h.isActive /\ h.isMounted
    THEN executePoll([h EXCEPT !.isLocked = FALSE], attempt, cont)
    ELSE [h EXCEPT !.isLocked = FALSE]

\* the timer that both branches of executePoll set for the next attempt
scheduleNext(h, attempt) ==
  IF h.isActive /\ h.isMounted
    THEN [clearTimer(h) EXCEPT !.timer = NextTimer(attempt + 1)]
    ELSE [h EXCEPT !.isLocked = FALSE]

\* the test with > in place of >=
maxAttemptsExhaustedOffByOne(attempt) ==
  optMaxAttempts # 0 /\ attempt > optMaxAttempts

\* optionsRef.current.maxAttempts && attempt >= optionsRef.current.maxAttempts
maxAttemptsExhausted(attempt) ==
  optMaxAttempts # 0 /\ attempt >= optMaxAttempts

\* both branches of executePoll when attempt >= maxAttempts
maxAttemptsReached(h) ==
  [h EXCEPT !.state.isPolling = FALSE,
            !.state.status = "timeout",
            !.calls.onMaxAttemptsReached = @ + 1,
            !.isActive = FALSE,
            !.isLocked = FALSE]

\* a completed branch that calls onSuccess and leaves the session active
completedResponseStaysActive(h, result) ==
  [h EXCEPT !.calls.onSuccess = @ + 1,
            !.calls.onSuccessArg = result]

\* executePoll on a completed response
completedResponse(h, result) ==
  [h EXCEPT !.calls.onSuccess = @ + 1,
            !.calls.onSuccessArg = result,
            !.isActive = FALSE,
            !.isLocked = FALSE]

\* what executePoll stores of a result before it looks at the active flag
storeResult(h, result) ==
  [h EXCEPT !.lastSuccessData = result,
            !.hasSuccessfulResponse = @ \/ isCompletedResponse(result)]

\* executePoll after its await, pollingFn resolved with result
executePollResolved(h0, attempt, result, cont) ==
  LET completed == isCompletedResponse(result)
      h == storeResult([h0 EXCEPT !.pending[attempt] = @ - 1], result)
  IN IF h.isMounted /\ h.isActive
       THEN
         LET s == [h EXCEPT !.state.attempt = attempt,
                            !.state.lastPollTime = attempt,
                            !.state.data = result,
                            !.state.status = IF completed THEN "success" ELSE "polling"]
         IN IF completed THEN completedResponse(s, result)
            ELSE IF maxAttemptsExhausted(attempt) THEN maxAttemptsReached(s)
            ELSE IF ~cont THEN stopByPredicate(s)
            ELSE scheduleNext(s, attempt)
       ELSE [h EXCEPT !.isLocked = FALSE]

\* a catch branch that records the error and never sets the next timer
executePollRejectedGivingUp(h0, attempt, error) ==
  LET h == [h0 EXCEPT !.pending[attempt] = @ - 1]
  IN IF h.isMounted /\ h.isActive
       THEN
         LET s == [h EXCEPT !.state.attempt = attempt,
                            !.state.lastPollTime = attempt,
                            !.state.error = error,
                            !.state.status = "error",
                            !.calls.onError = @ + 1]
         IN IF maxAttemptsExhausted(attempt) THEN maxAttemptsReached(s)
              ELSE [s EXCEPT !.isLocked = FALSE]
       ELSE [h EXCEPT !.isLocked = FALSE]

\* executePoll after its await, pollingFn rejected with error
executePollRejected(h0, attempt, error) ==
  LET h == [h0 EXCEPT !.pending[attempt] = @ - 1]
  IN IF h.isMounted /\ h.isActive
       THEN
         LET s == [h EXCEPT !.state.attempt = attempt,
                            !.state.lastPollTime = attempt,
                            !.state.error = error,
                            !.state.status = "error",
                            !.calls.onError = @ + 1]
         IN IF maxAttemptsExhausted(attempt) THEN maxAttemptsReached(s)
              ELSE scheduleNext(s, attempt)
       ELSE [h EXCEPT !.isLocked = FALSE]

\* setState(next) outside a mounted check: React drops the update of an
\* unmounted component
setState(h, next) ==
  IF h.isMounted THEN [h EXCEPT !.state = next] ELSE h

\* a startPolling that begins a new session whatever the flags say
startPollingUnguarded(h, delay, cont) ==
  LET s == setState([clearTimer(h) EXCEPT
                       !.isActive = TRUE,
                       !.hasSuccessfulResponse = FALSE,
                       !.isLocked = FALSE,
                       !.calls = NoCalls],
                    [isPolling |-> TRUE, attempt |-> 0, lastPollTime |-> 0,
                     data |-> NULL, error |-> NULL, status |-> "polling"])
  IN IF delay
       THEN [s EXCEPT !.timer = InitialTimer]
       ELSE executePoll(s, 1, cont)

\* delay: options.initialDelay > 0
startPolling(h, delay, cont) ==
  IF h.isActive \/ h.isLocked THEN h
  ELSE
    LET s == setState([clearTimer(h) EXCEPT
                         !.isActive = TRUE,
                         !.hasSuccessfulResponse = FALSE,
                         !.isLocked = FALSE,
                         !.calls = NoCalls],
                      [isPolling |-> TRUE, attempt |-> 0, lastPollTime |-> 0,
                       data |-> NULL, error |-> NULL, status |-> "polling"])
    IN IF delay
         THEN [s EXCEPT !.timer = InitialTimer]
         ELSE executePoll(s, 1, cont)

restartPolling(h) ==
  IF h.grace >= MaxGrace THEN [h EXCEPT !.blocked = TRUE]
  ELSE [stopPolling(h) EXCEPT !.grace = @ + 1]

\* a resetPolling that stops the session and keeps what it has stored
resetPollingKeepingData(h) == stopPolling(h)

resetPolling(h) ==
  setState([stopPolling(h) EXCEPT !.lastSuccessData = NULL,
                                  !.hasSuccessfulResponse = FALSE],
           IdleState)

\* the callback of the timer in timerRef
timerCallback(h0, cont) ==
  LET h == [h0 EXCEPT !.timer = NoTimer]
  IN IF h0.timer.kind = "initial"
       THEN IF h.isMounted /\ h.isActive THEN executePoll(h, 1, cont) ELSE h
       ELSE nextAttemptCallback(h, h0.timer.attempt, cont)

\* the callback of restartPolling's setTimeout(..., 100)
graceCallback(h0, delay, cont) ==
  LET h == [h0 EXCEPT !.grace = @ - 1]
  IN IF h.isMounted THEN startPolling(h, delay, cont) ELSE h

\* cleanup of the effect at unmount
unmount(h) ==
  clearTimer([h EXCEPT !.isMounted = FALSE, !.isActive = FALSE])

(***************************************************************************)
(* Response classifiers of api.ts                                          *)
(***************************************************************************)
errorPhrases ==
  { <<"encountered", "an", "issue">>, <<"i'm", "sorry">>,
    <<"couldn't", "analyze">>, <<"failed", "to", "analyze">>,
    <<"unable", "to">>, <<"error", "occurred">>, <<"invalid", "domain">> }

\* content is response.response?.data?.content; the fallback response.content
\* is absent from the replies of the endpoint
containsErrorMessage(response) ==
  /\ response.type = "object"
  /\ response.content.type \in {"string", "object"}
  /\ \E phrase \in errorPhrases :
       Includes(toLowerCase(response.content.text), toLowerCase(phrase))

\* isAnalysisComplete without its first check
isAnalysisCompleteIgnoringErrors(response) ==
  /\ response.type = "object"
  /\ response.status \in {"succeeded", "completed"}
  /\ response.content.type = "object"
  /\ response.content.nkeys > 0
  /\ response.content.summary = "nonempty"
  /\ (response.content.programs = "nonempty" \/ response.content.details)

isAnalysisComplete(response) ==
  /\ response.type = "object"
  /\ ~containsErrorMessage(response)
  /\ response.status \in {"succeeded", "completed"}
  /\ response.content.type = "object"
  /\ response.content.nkeys > 0
  /\ response.content.summary = "nonempty"
  /\ (response.content.programs = "nonempty" \/ response.content.details)

\* !!content: undefined, null and the empty string are falsy
hasContent(content) ==
  \/ content.type = "object"
  \/ content.type = "string" /\ Len(content.text) > 0

\* hasMinimumContent of languageDetection.ts. company_summary is "absent",
\* "empty" ({}), "nonempty" or "string"; programs_list is "absent",
\* "emptyArray", "emptyObject", "nonempty" or "string"
hasMinimumContent(response) ==
  /\ response.type = "object"
  /\ hasContent(response.content)
  /\ \/ response.status = "succeeded"
     \/ response.content.summary \in {"empty", "nonempty"}
     \/ response.content.programs \in {"emptyArray", "emptyObject", "nonempty"}
     \/ response.content.details

(***************************************************************************)
(* parsePlanData and validatePlanData (part_004). Their argument is any    *)
(* JSON value: null, a string, a number, an array of items, or an object   *)
(* with the members it has. introduction, tools_used, conclusion,          *)
(* how_brevo_helps_you, raw_content_structure, metadata and the scenarios  *)
(* of a program are copied without a test that can fail and are left out.  *)
(***************************************************************************)
Undefined == [type |-> "undefined"]
JsString(t) == [type |-> "jsString", text |-> t]
JsNumber == [type |-> "jsNumber"]
JsArray(items) == [type |-> "jsArray", items |-> items]
JsObject(members) == [type |-> "jsObject", members |-> members]

\* an Error thrown out of the call
Throw(msg) == [type |-> "throw", message |-> msg]

\* !!v, for a number other than 0
Truthy(v) ==
  /\ v.type \notin {"null", "undefined"}
  /\ ~(v.type = "jsString" /\ v.text = "")

\* typeof v === 'object'
typeofObject(v) == v.type \in {"jsObject", "jsArray", "null"}

\* a || b
Or(a, b) == IF Truthy(a) THEN a ELSE b

\* key in v, for a v that passed typeof v === 'object'
HasKey(v, key) == v.type = "jsObject" /\ key \in DOMAIN v.members

\* v[key] of a value that is neither null nor undefined
Get(v, key) == IF HasKey(v, key) THEN v.members[key] ELSE Undefined

\* the inner loop of getNestedValue
RECURSIVE followPath(_, _)
followPath(current, path) ==
  IF path = <<>> THEN [valid |-> TRUE, value |-> current]
  ELSE IF Truthy(current) /\ typeofObject(current) /\ HasKey(current, Head(path))
    THEN followPath(current.members[Head(path)], Tail(path))
  ELSE [valid |-> FALSE, value |-> NULL]

RECURSIVE getNestedValue(_, _)
getNestedValue(obj, pathOptions) ==
  IF pathOptions = <<>> THEN [value |-> NULL, path |-> <<>>]
  ELSE LET found == followPath(obj, Head(pathOptions))
       IN IF found.valid THEN [value |-> found.value, path |-> Head(pathOptions)]
          ELSE getNestedValue(obj, Tail(pathOptions))

\* the path options parsePlanData gives to getNestedValue
contentPaths ==
  << <<"response", "data", "content">>, <<"content">>,
     <<"response", "data", "content", "json_response">>,
     <<"content", "json_response">>, <<>> >>

NotSpecified == JsString("Not specified")

\* extractCompanyName(domain) and domain || 'Unknown' for the domain given
fallbackName == JsString("name of domain")
fallbackWebsite == JsString("domain")

parseCompanySummary(data) ==
  IF ~Truthy(data) \/ ~typeofObject(data)
    THEN [name |-> fallbackName, website |-> fallbackWebsite,
          activities |-> NotSpecified, target |-> NotSpecified,
          industry |-> Undefined, target_audience |-> Undefined]
  ELSE LET activities == Or(Or(Get(data, "activities"), Get(data, "industry")), NotSpecified)
           target == Or(Or(Get(data, "target"), Get(data, "target_audience")), NotSpecified)
       IN [name |-> Or(Get(data, "name"), fallbackName),
           website |-> Or(Get(data, "website"), fallbackWebsite),
           activities |-> activities,
           target |-> target,
           industry |-> Or(Get(data, "industry"), activities),
           target_audience |-> Or(Get(data, "target_audience"), target)]

\* the keys a programs map may have, in the order Object.entries gives them
programKeys == <<"program_1", "program_2", "program_3">>

RECURSIVE entriesOf(_, _)
entriesOf(members, keys) ==
  IF keys = <<>> THEN <<>>
  ELSE IF Head(keys) \in DOMAIN members
    THEN <<members[Head(keys)]>> \o entriesOf(members, Tail(keys))
  ELSE entriesOf(members, Tail(keys))

\* the callback of data.map: program.program_name of null is a TypeError
mapProgram(program, index) ==
  [program_name |-> Or(Or(Get(program, "program_name"), Get(program, "name")),
                       JsString("Program n")),
   target |-> Or(Get(program, "target"), NotSpecified),
   objective |-> Or(Get(program, "objective"), NotSpecified),
   kpi |-> Or(Get(program, "kpi"), JsString("")),
   description |-> Or(Get(program, "description"), JsString(""))]

placeholderProgram ==
  [program_name |-> JsString("Marketing Program"), target |-> NotSpecified,
   objective |-> NotSpecified, kpi |-> JsString(""),
   description |-> JsString("No program details available")]

\* program_1_details of the content names the first program
applyDetails(programs, allContentData) ==
  LET details == Get(allContentData, "program_1_details")
      named == Or(Get(details, "program_name"), Get(details, "name"))
  IN IF Truthy(details) /\ typeofObject(details) /\ Truthy(named)
       THEN [programs EXCEPT ![1].program_name = named]
       ELSE programs

parsePrograms(data, allContentData) ==
  IF ~Truthy(data) THEN JsArray(<<>>)
  ELSE LET entries == IF data.type = "jsArray" THEN data.items
                      ELSE IF data.type = "jsObject"
                        THEN entriesOf(data.members, programKeys)
                      ELSE <<>>
           programs == [i \in 1..Len(entries) |-> mapProgram(entries[i], i)]
       IN IF \E i \in 1..Len(entries) : entries[i].type \in {"null", "undefined"}
            THEN Throw("Cannot read properties of null")
          ELSE JsArray(applyDetails(IF Len(programs) = 0
                                      THEN <<placeholderProgram>> ELSE programs,
                                    allContentData))

\* the value parsePlanData returns, or the Error its catch block rethrows
parsePlanData(responseData) ==
  IF ~Truthy(responseData) THEN NULL
  ELSE LET content == getNestedValue(responseData, contentPaths).value
       IN IF ~Truthy(content) \/ ~typeofObject(content)
            THEN Throw("Invalid content structure or missing content")
          ELSE LET programsList == parsePrograms(Get(content, "programs_list"), content)
               IN IF programsList.type = "throw" THEN programsList
                  ELSE [type |-> "plan",
                        company_summary |->
                          parseCompanySummary(Get(content, "company_summary")),
                        programs_list |-> programsList.items]

\* hasContent(str), or "throw" when str.trim is not a function
planHasContent(str) ==
  IF ~Truthy(str) THEN "false"
  ELSE IF str.type = "jsString" /\ str.text = "Not specified" THEN "false"
  ELSE IF str.type # "jsString" THEN "throw"
  ELSE IF str.text = " " THEN "false"
  ELSE "true"

\* (a && hasContent(a)) || (b && hasContent(b))
eitherHasContent(a, b) ==
  IF Truthy(a) /\ planHasContent(a) # "false" THEN planHasContent(a)
  ELSE IF Truthy(b) THEN planHasContent(b)
  ELSE "false"

validationOutcome(data, errors) ==
  [type |-> "validation", data |-> data, isValid |-> (errors = <<>>), errors |-> errors]

validatePlanData(data) ==
  IF ~Truthy(data) THEN validationOutcome(NULL, <<"data">>)
  ELSE LET parsedData == parsePlanData(data)
       IN IF parsedData.type # "plan" THEN validationOutcome(NULL, <<"parsing">>)
          ELSE LET summary == parsedData.company_summary
                   hasActivities == eitherHasContent(summary.activities, summary.industry)
                   hasTarget == eitherHasContent(summary.target, summary.target_audience)
                   errors == (IF hasActivities = "false"
                                THEN <<"company_summary.activities">> ELSE <<>>)
                             \o (IF hasTarget = "false"
                                   THEN <<"company_summary.target">> ELSE <<>>)
               IN IF hasActivities = "throw" \/ hasTarget = "throw"
                    THEN validationOutcome(NULL, <<"validation">>)
                  ELSE IF errors # <<>> THEN validationOutcome(NULL, errors)
                  ELSE validationOutcome(parsedData, <<>>)

(***************************************************************************)
(* normalizeDomain of domainUtils (part_005), which the storage service    *)
(* uses, and normalizeDomain of marketingPlanService.ts. A domain string   *)
(* is a sequence of the pieces the regular expressions tell apart: " ",    *)
(* "http:" (for http: and https:), "/", "www.", a label "x", and "HTTP:",  *)
(* "WWW.", "X" for the same in upper case.                                 *)
(***************************************************************************)
RECURSIVE trimStart(_)
trimStart(s) ==
  IF s # <<>> /\ Head(s) = " " THEN trimStart(Tail(s)) ELSE s

RECURSIVE trimEnd(_)
trimEnd(s) ==
  IF s # <<>> /\ s[Len(s)] = " " THEN trimEnd(SubSeq(s, 1, Len(s) - 1)) ELSE s

\* String.prototype.trim
trim(s) == trimEnd(trimStart(s))

\* replace(/^https?:\/\//, "")
stripProtocol(s) ==
  IF Len(s) >= 3 /\ s[1] = "http:" /\ s[2] = "/" /\ s[3] = "/"
    THEN SubSeq(s, 4, Len(s))
    ELSE s

\* replace(/\/.*$/, ""): everything from the first slash on
RECURSIVE stripPath(_)
stripPath(s) ==
  IF s = <<>> \/ Head(s) = "/" THEN <<>>
  ELSE <<Head(s)>> \o stripPath(Tail(s))

\* replace(/^www\./, "")
stripWww(s) ==
  IF s # <<>> /\ Head(s) = "www." THEN Tail(s) ELSE s

\* normalizeDomain of domainUtils
normalizeDomain(domain) ==
  stripWww(stripPath(stripProtocol(toLowerCase(trim(domain)))))

\* normalizeDomain of marketingPlanService.ts
normalizeDomainOfService(domain) ==
  IF domain = <<>> THEN <<>>
  ELSE trim(toLowerCase(stripWww(stripPath(stripProtocol(domain)))))

\* a reply of the analysis-answer endpoint, or a fetch that fails on the way
HttpReply(ok, code, text, body) ==
  [kind |-> "http", ok |-> ok, code |-> code, text |-> text, body |-> body]
NetworkFailure(text) ==
  [kind |-> "network", ok |-> FALSE, code |-> "0", text |-> text, body |-> NULL]

\* what the await of getAnalysisAnswer yields: the parsed body, or the Error it
\* throws. The contentError marks it adds to the body are read by nobody.
getAnalysisAnswer(reply) ==
  IF reply.kind = "network" THEN ErrorOf(reply.text)
  ELSE IF ~reply.ok
    THEN ErrorOf(<<"Server", "error:", reply.code, "-">> \o reply.text)
  ELSE reply.body

(***************************************************************************)
(* useMarketingPlanData (part_008) for a page that was given a domain and  *)
(* a conversation id. Of its React state the model keeps what its polling  *)
(* reads or writes; planData, loadingMessage, pollCounter, rawApiData and  *)
(* responseStatus (with the effect that re-validates it) are left out.    *)
(* retryConnection is part of SpecPlanRetry only; in the other             *)
(* specifications the hook polls the conversation it was given.            *)
(***************************************************************************)
VARIABLES
  consecutive404ErrorsRef,       \* consecutive404ErrorsRef.current
  continuePolling,               \* state continuePolling, as last set
  optionsContinue,               \* what optionsRef.current.shouldContinuePolling()
                                 \* answers: continuePolling of the committed render
  error,                         \* state error: "none", "message",
                                 \* "invalid_conversation" or "timeout"
  autoNavigating,                \* state autoNavigating
  hasValidPlan,                  \* state hasValidPlan
  isLoading,                     \* state isLoading
  dataValidationPassedRef,       \* dataValidationPassedRef.current
  minimumPollingTimeReachedRef,  \* minimumPollingTimeReachedRef.current
  hasNavigatedRef,               \* hasNavigatedRef.current
  planStored,                    \* a plan of the domain is in the database
  saveCalls,                     \* history: calls of saveMarketingPlan
  setup,                         \* initial setup: "checking", "timer" or "done"
  lastOutcomes                   \* history: kinds of the last two settled fetches

planVars ==
  <<consecutive404ErrorsRef, continuePolling, optionsContinue, error,
    autoNavigating, hasValidPlan, isLoading, dataValidationPassedRef,
    minimumPollingTimeReachedRef, hasNavigatedRef, planStored, saveCalls,
    setup, lastOutcomes>>

\* calls of saveMarketingPlan that are counted
MaxSaveCalls == 2

\* const notFoundErrorThreshold = 2
notFoundErrorThreshold == 2

PlanData ==
  [consecutive404Errors |-> consecutive404ErrorsRef,
   continuePolling |-> continuePolling,
   error |-> error,
   autoNavigating |-> autoNavigating,
   hasValidPlan |-> hasValidPlan,
   isLoading |-> isLoading,
   dataValidationPassed |-> dataValidationPassedRef,
   minimumPollingTimeReached |-> minimumPollingTimeReachedRef,
   hasNavigated |-> hasNavigatedRef,
   planStored |-> planStored,
   saveCalls |-> saveCalls,
   blocked |-> FALSE,
   returned |-> NULL]

\* refs are written whatever happens; the setters of an unmounted component
\* do nothing
CommitPlan(p) ==
  /\ consecutive404ErrorsRef' = p.consecutive404Errors
  /\ dataValidationPassedRef' = p.dataValidationPassed
  /\ hasNavigatedRef' = p.hasNavigated
  /\ planStored' = p.planStored
  /\ ~p.blocked
  /\ saveCalls' = p.saveCalls
  /\ continuePolling' = IF isMountedRef THEN p.continuePolling ELSE continuePolling
  /\ error' = IF isMountedRef THEN p.error ELSE error
  /\ autoNavigating' = IF isMountedRef THEN p.autoNavigating ELSE autoNavigating
  /\ hasValidPlan' = IF isMountedRef THEN p.hasValidPlan ELSE hasValidPlan
  /\ isLoading' = IF isMountedRef THEN p.isLoading ELSE isLoading

\* the object the poll function returns when it gives the conversation up
InvalidConversation == Resp("invalid_conversation", "none", NoContent, <<>>)

\* handleSuccessfulPlan up to its await: the validation passed and
\* saveMarketingPlan is called
beginSave(p) ==
  IF p.saveCalls >= MaxSaveCalls THEN [p EXCEPT !.blocked = TRUE]
  ELSE [p EXCEPT !.dataValidationPassed = TRUE, !.saveCalls = @ + 1]

\* handleSuccessfulPlan after its await. saveOk: the insert of
\* saveMarketingPlan succeeded (TRUE) or failed (FALSE); saveMarketingPlan
\* catches every error and resolves to {success: false}, which
\* handleSuccessfulPlan does not read.
finishSave(p, saveOk) ==
  [p EXCEPT !.planStored = @ \/ saveOk,
            !.hasValidPlan = TRUE,
            !.isLoading = FALSE,
            !.continuePolling = FALSE,
            !.error = "none",
            !.hasNavigated = @ \/ (p.dataValidationPassed
                                    /\ p.minimumPollingTimeReached)]

\* the tests of handleSuccessfulPlan that lead to saveMarketingPlan, for a
\* response that isAnalysisComplete accepted: parsePlanData gives a
\* company_summary always and an empty programs_list exactly when
\* content.programs_list is missing
reachesSave(p, response) ==
  ~p.hasNavigated /\ response.content.programs # "absent"

\* handleSuccessfulPlan(parsedData, rawData) when nothing else runs while it
\* awaits saveMarketingPlan
handleSuccessfulPlan(p, response, saveOk) ==
  IF p.hasNavigated THEN p
  ELSE IF response.content.programs = "absent"
    THEN [p EXCEPT !.dataValidationPassed = FALSE]
  ELSE finishSave(beginSave(p), saveOk)

isNotFoundError(errorMessage) ==
  \/ Includes(toLowerCase(errorMessage), <<"no", "agent", "response">>)
  \/ Includes(errorMessage, <<"404">>)


\* a catch block that counts 404s and forgets to reset on other errors
pollCatchKeepsCount(p, errorMessage) ==
  LET count == IF isNotFoundError(errorMessage)
                 THEN p.consecutive404Errors + 1 ELSE p.consecutive404Errors
      q == [p EXCEPT !.consecutive404Errors = count]
  IN IF isNotFoundError(errorMessage) /\ count >= notFoundErrorThreshold
       THEN [q EXCEPT !.error = "invalid_conversation",
                      !.continuePolling = FALSE,
                      !.autoNavigating = TRUE,
                      !.returned = IF p.autoNavigating THEN NULL
                                   ELSE InvalidConversation]
       ELSE [q EXCEPT !.error = "message", !.returned = NULL]

\* the catch block of the poll function
pollCatch(p, errorMessage) ==
  LET count == IF isNotFoundError(errorMessage)
                 THEN p.consecutive404Errors + 1 ELSE 0
      q == [p EXCEPT !.consecutive404Errors = count]
  IN IF isNotFoundError(errorMessage) /\ count >= notFoundErrorThreshold
       THEN [q EXCEPT !.error = "invalid_conversation",
                      !.continuePolling = FALSE,
                      !.autoNavigating = TRUE,
                      !.returned = IF p.autoNavigating THEN NULL
                                   ELSE InvalidConversation]
       ELSE [q EXCEPT !.error = "message", !.returned = NULL]

\* new Error(response.response?.error || 'Polling failed')
failureMessage(response) ==
  IF response.error # <<>> THEN response.error ELSE <<"Polling", "failed">>

\* the poll function handed to usePolling, from the moment getAnalysisAnswer
\* settles with outcome; it never rejects, !.returned is what it resolves to
pollingFn(p, outcome, saveOk) ==
  IF outcome.type = "error" THEN pollCatch(p, outcome.message)
  ELSE
    LET q == [p EXCEPT !.consecutive404Errors = 0]
    IN IF outcome.status = "failed" THEN pollCatch(q, failureMessage(outcome))
       ELSE IF isAnalysisComplete(outcome)
         THEN LET r == handleSuccessfulPlan(q, outcome, saveOk)
              IN [r EXCEPT !.returned =
                    IF r.minimumPollingTimeReached /\ r.dataValidationPassed
                      THEN outcome ELSE NULL]
       ELSE [q EXCEPT !.returned = outcome]

\* options.onMaxAttemptsReached of the hook
onMaxAttemptsReached(p) ==
  [p EXCEPT !.error = "timeout", !.continuePolling = FALSE]

\* handleTimeout, the callback of the 6-minute useTimeout
handleTimeout(p) ==
  [p EXCEPT !.error = "timeout", !.continuePolling = FALSE]

\* the kind of a settled fetch, for the history
outcomeKind(outcome) ==
  LET message == IF outcome.type = "error" THEN outcome.message
                 ELSE failureMessage(outcome)
  IN IF outcome.type = "error" \/ outcome.status = "failed"
       THEN IF Includes(toLowerCase(message), <<"no", "agent", "response", "found">>)
              THEN "noAgentResponse"
            ELSE IF isNotFoundError(message) THEN "generic404"
            ELSE "otherError"
     ELSE IF containsErrorMessage(outcome) THEN "contentError"
     ELSE "response"

Remember(history, kind) ==
  IF Len(history) < 2 THEN Append(history, kind) ELSE <<history[2], kind>>

(***************************************************************************)
(* CompetitorStackPage and the competitor_stack table. Every page session  *)
(* is one mounted instance of the component, all for the same domain.      *)
(***************************************************************************)
\* page sessions that are opened
MaxPages == 2
Pages == 1..MaxPages

VARIABLES
  pageStatus,      \* per session: "unopened", "mounted" or "unmounted"
  hasSavedRef,     \* per session: hasSavedRef.current
  rawApiData,      \* per session: rawApiData of useCompetitorStackData
  hasDbData,       \* per session: state hasDbData
  storing,         \* per session: storeCompetitorAnalysis calls in flight
  storeCalls,      \* history: storeCompetitorAnalysis calls of the session
  latchSkips,      \* history: the save effect found hasSavedRef set
  foundAtLoad,     \* history: the table held a row when the session opened
  competitorStack  \* rows of the table for the domain

pageVars ==
  <<pageStatus, hasSavedRef, rawApiData, hasDbData, storing, storeCalls,
    latchSkips, foundAtLoad, competitorStack>>

PageOf(p) ==
  [hasSaved |-> hasSavedRef[p], rawApiData |-> rawApiData[p],
   hasDbData |-> hasDbData[p], storing |-> storing[p],
   storeCalls |-> storeCalls[p], latchSkips |-> latchSkips[p]]

CommitPage(p, pg) ==
  /\ hasSavedRef' = [hasSavedRef EXCEPT ![p] = pg.hasSaved]
  /\ rawApiData' = [rawApiData EXCEPT ![p] = pg.rawApiData]
  /\ hasDbData' = [hasDbData EXCEPT ![p] = pg.hasDbData]
  /\ storing' = [storing EXCEPT ![p] = pg.storing]
  /\ storeCalls' = [storeCalls EXCEPT ![p] = pg.storeCalls]
  /\ latchSkips' = [latchSkips EXCEPT ![p] = pg.latchSkips]
  /\ UNCHANGED foundAtLoad

\* shouldRunAnalysis && rawApiData && rawApiData.status === "succeeded"
\* && effectiveDomain
saveWanted(pg) ==
  /\ ~pg.hasDbData
  /\ pg.rawApiData.type = "object"
  /\ pg.rawApiData.status = "succeeded"

\* a save effect that never sets the latch
saveEffectWithoutLatch(pg) ==
  IF saveWanted(pg) /\ ~pg.hasSaved
    THEN [pg EXCEPT !.storing = @ + 1, !.storeCalls = @ + 1]
    ELSE pg

\* the effect "Save to Supabase only once per analysis"
saveEffect(pg) ==
  IF saveWanted(pg) /\ ~pg.hasSaved
    THEN [pg EXCEPT !.hasSaved = TRUE, !.storing = @ + 1, !.storeCalls = @ + 1]
  ELSE IF saveWanted(pg) THEN [pg EXCEPT !.latchSkips = TRUE]
  ELSE pg

\* renderContent: the loading view until dbData is found, then the results
renderContent(pg) ==
  IF ~pg.hasDbData THEN "loading" ELSE "results"

appVars == <<planVars, pageVars>>

(***************************************************************************)
(* results of an abstract pollingFn, as the caller of usePolling sees them *)
(***************************************************************************)
RunningResp == Resp("running", "none", NoContent, <<>>)
CompletedResp == Resp("succeeded", "completed", NoContent, <<>>)
\* content without response.state: complete for usePolling when it has keys
ContentResp ==
  Resp("running", "none", ObjContent(<<"data">>, 1, "absent", "absent", FALSE), <<>>)
PollResults == {RunningResp, CompletedResp, ContentResp}
PollErrors == {ErrorOf(<<"Failed", "to", "fetch">>)}

\* replies of the analysis-answer endpoint that the model draws
RunningReply == HttpReply(TRUE, "200", <<>>, RunningResp)
PlanResp ==
  Resp("succeeded", "none",
       ObjContent(<<"plan">>, 3, "nonempty", "nonempty", TRUE), <<>>)
CompleteReply == HttpReply(TRUE, "200", <<>>, PlanResp)
\* a summary and program details without a programs_list
DetailsOnlyResp ==
  Resp("succeeded", "none",
       ObjContent(<<"plan">>, 2, "nonempty", "absent", TRUE), <<>>)
DetailsOnlyReply == HttpReply(TRUE, "200", <<>>, DetailsOnlyResp)
EmbeddedErrorResp ==
  Resp("succeeded", "none",
       StrContent(<<"I'm", "Sorry", ",", "I", "couldn't", "analyze", "this", "domain">>),
       <<>>)
EmbeddedErrorReply == HttpReply(TRUE, "200", <<>>, EmbeddedErrorResp)
FailedReply == HttpReply(TRUE, "200", <<>>, Resp("failed", "none", NoContent, <<>>))
NoAgentReply == HttpReply(FALSE, "404", <<"No", "agent", "response", "found">>, NULL)
NotFoundReply == HttpReply(FALSE, "404", <<"Not", "Found">>, NULL)
ServerErrorReply == HttpReply(FALSE, "500", <<"Internal", "Server", "Error">>, NULL)
Replies ==
  { RunningReply, CompleteReply, DetailsOnlyReply, EmbeddedErrorReply, FailedReply,
    NoAgentReply, NotFoundReply, ServerErrorReply,
    NetworkFailure(<<"Failed", "to", "fetch">>) }

(***************************************************************************)
(* Actions of usePolling. The caller's options are read when they are      *)
(* used: initialDelay (delay) and the answer of shouldContinuePolling()    *)
(* (cont) are whatever the caller's latest render supplied.                *)
(***************************************************************************)
StartPolling ==
  /\ \E delay \in BOOLEAN, cont \in BOOLEAN :
       Commit(startPolling(Hook, delay, cont))
  /\ stoppedWithTimer' = FALSE
  /\ UNCHANGED <<optMaxAttempts, appVars>>

StopPolling ==
  /\ Commit(stopPolling(Hook))
  /\ stoppedWithTimer' = (stoppedWithTimer \/ timerRef # NoTimer)
  /\ UNCHANGED <<optMaxAttempts, appVars>>

RestartPolling ==
  /\ Commit(restartPolling(Hook))
  /\ stoppedWithTimer' = FALSE
  /\ UNCHANGED <<optMaxAttempts, appVars>>

ResetPolling ==
  /\ Commit(resetPolling(Hook))
  /\ stoppedWithTimer' = (stoppedWithTimer \/ timerRef # NoTimer)
  /\ UNCHANGED <<optMaxAttempts, appVars>>

TimerFires ==
  /\ timerRef # NoTimer
  /\ \E cont \in BOOLEAN : Commit(timerCallback(Hook, cont))
  /\ UNCHANGED <<optMaxAttempts, stoppedWithTimer, appVars>>

GraceTimerFires ==
  /\ graceTimers > 0
  /\ \E delay \in BOOLEAN, cont \in BOOLEAN : Commit(graceCallback(Hook, delay, cont))
  /\ stoppedWithTimer' = (stoppedWithTimer /\ ~isMountedRef)
  /\ UNCHANGED <<optMaxAttempts, appVars>>

FetchResolves ==
  \E n \in Attempts, r \in PollResults, cont \in BOOLEAN :
    /\ pending[n] > 0
    /\ Commit(executePollResolved(Hook, n, r, cont))
    /\ UNCHANGED <<optMaxAttempts, stoppedWithTimer, appVars>>

FetchRejects ==
  \E n \in Attempts, e \in PollErrors :
    /\ pending[n] > 0
    /\ Commit(executePollRejected(Hook, n, e))
    /\ UNCHANGED <<optMaxAttempts, stoppedWithTimer, appVars>>

Unmount ==
  /\ isMountedRef
  /\ Commit(unmount(Hook))
  /\ UNCHANGED <<optMaxAttempts, stoppedWithTimer, appVars>>

(***************************************************************************)
(* useTimeout as useMarketingPlanData uses it. Time is counted in ticks of *)
(* one polling interval (10000 ms for the first attempts, never less); the *)
(* 360000 ms of timeoutDuration are TimeoutTicks of them, scaled down with *)
(* the attempt cap so that, as in the program, the attempts of one session *)
(* span more time than the timeout.                                        *)
(***************************************************************************)
TimeoutTicks == 3
MaxTime == TimeoutTicks + 2

VARIABLES
  now,          \* Date.now(), in ticks since the hook was mounted
  timeoutRef,   \* timeoutRef.current of useTimeout: when its timer is due
  setupDue,     \* when the setTimeout of the initial setup is due
  timerDue,     \* when the timer held in timerRef of usePolling is due
  timeoutCalls  \* history: how often the timer of useTimeout called onTimeout

timeVars == <<now, timeoutRef, setupDue, timerDue, timeoutCalls>>

NoDeadline == -1

(***************************************************************************)
(* The classifiers, the parser and the key normalisation are functions of  *)
(* their argument: a call is modelled by the argument it is given and the  *)
(* value it returned.                                                      *)
(***************************************************************************)
VARIABLES
  arg,      \* the argument of the call
  result    \* what the call returned; NotCalled before it

\* The table competitor_stack of the database and the clock that
\* new Date() reads.
VARIABLES
  competitor_stack,  \* the rows, in the order of their insertion
  clock              \* the time the last timestamp was taken at

storeVars == <<competitor_stack, clock>>

\* One instance of useCompetitorStackData: its props, refs and React state
\* as one record, with the getAnalysisAnswer calls it is waiting for.
VARIABLES
  stackData

\* The module-level log buffers: apiLogs of services/api.ts and dbLogs of
\* the log panel, both newest first.
VARIABLES
  apiLogs,
  dbLogs

logVars == <<apiLogs, dbLogs>>

libVars == <<arg, result, storeVars, stackData, logVars>>

NotCalled == [type |-> "notCalled"]

\* an empty table
InitStore ==
  /\ competitor_stack = <<>>
  /\ clock = 0

\* useCompetitorStackData before its component is rendered
UnmountedStack ==
  [conversationId |-> FALSE, mountedRef |-> FALSE, pollingIntervalRef |-> FALSE,
   attemptCountRef |-> 0, isLoading |-> FALSE, error |-> "none",
   hasValidData |-> FALSE,
   pending |-> [initial |-> 0, poll |-> 0, retry |-> 0],
   fetches |-> 0, blocked |-> FALSE]

InitStackAtRest == stackData = UnmountedStack

\* export let apiLogs = [] and let dbLogs = []
InitLogs ==
  /\ apiLogs = << >>
  /\ dbLogs = << >>

InitLib ==
  /\ arg = NULL
  /\ result = NotCalled
  /\ InitStore
  /\ InitStackAtRest
  /\ InitLogs

\* the effect of useTimeout: its cleanup clears the timer, then a new one of
\* the whole timeoutDuration is set when enabled
useTimeoutEffect(enabled, t) ==
  IF enabled THEN t + TimeoutTicks ELSE NoDeadline

\* after the first render: enabled is isLoading && !hasValidPlan = true
InitTime ==
  /\ now = 0
  /\ timeoutRef = useTimeoutEffect(TRUE, 0)
  /\ setupDue = NoDeadline
  /\ timerDue = NoDeadline
  /\ timeoutCalls = 0

InitHook ==
  /\ isMountedRef = TRUE
  /\ timerRef = NoTimer
  /\ isActivePollingRef = FALSE
  /\ hasSuccessfulResponseRef = FALSE
  /\ isLocked = FALSE
  /\ lastSuccessDataRef = NULL
  /\ state = IdleState
  /\ pending = NoPending
  /\ graceTimers = 0
  /\ calls = NoCalls
  /\ stoppedWithTimer = FALSE

\* useMarketingPlanData after its first render and effects: loading, and
\* waiting for the database check of the initial setup
InitPlanState ==
  /\ consecutive404ErrorsRef = 0
  /\ continuePolling = FALSE
  /\ optionsContinue = FALSE
  /\ error = "none"
  /\ autoNavigating = FALSE
  /\ hasValidPlan = FALSE
  /\ isLoading = TRUE
  /\ dataValidationPassedRef = FALSE
  /\ minimumPollingTimeReachedRef = FALSE
  /\ hasNavigatedRef = FALSE
  /\ saveCalls = 0
  /\ setup = "checking"
  /\ lastOutcomes = <<>>

\* no plan of the domain in storage when the session opens
InitPlanData ==
  /\ InitPlanState
  /\ planStored = FALSE

\* no page session opened, an empty table
InitPages ==
  /\ pageStatus = [p \in Pages |-> "unopened"]
  /\ hasSavedRef = [p \in Pages |-> FALSE]
  /\ rawApiData = [p \in Pages |-> NULL]
  /\ hasDbData = [p \in Pages |-> FALSE]
  /\ storing = [p \in Pages |-> 0]
  /\ storeCalls = [p \in Pages |-> 0]
  /\ latchSkips = [p \in Pages |-> FALSE]
  /\ foundAtLoad = [p \in Pages |-> FALSE]
  /\ competitorStack = 0

Init ==
  /\ InitHook
  /\ InitPlanData
  /\ InitPages
  /\ InitTime
  /\ InitLib
  /\ optMaxAttempts \in 1..MaxAttemptsBound

vars == <<pollVars, optMaxAttempts, stoppedWithTimer, appVars, timeVars, libVars>>

Next ==
  \/ StartPolling /\ UNCHANGED <<timeVars, libVars>>
  \/ StopPolling /\ UNCHANGED <<timeVars, libVars>>
  \/ RestartPolling /\ UNCHANGED <<timeVars, libVars>>
  \/ ResetPolling /\ UNCHANGED <<timeVars, libVars>>
  \/ TimerFires /\ UNCHANGED <<timeVars, libVars>>
  \/ GraceTimerFires /\ UNCHANGED <<timeVars, libVars>>
  \/ FetchResolves /\ UNCHANGED <<timeVars, libVars>>
  \/ FetchRejects /\ UNCHANGED <<timeVars, libVars>>
  \/ Unmount /\ UNCHANGED <<timeVars, libVars>>

Spec == Init /\ [][Next]_vars

\* The same hook with a record of the caller's last call: arg names the
\* operation, and result holds the hook as startPolling found it when it
\* returned at its guard.
callOf(op) == [op |-> op]

Called(op) ==
  /\ arg' = callOf(op)
  /\ result' = IF op = "startPolling" /\ (isActivePollingRef \/ isLocked)
                 THEN Hook ELSE NotCalled
  /\ UNCHANGED <<timeVars, storeVars, stackData, logVars>>

NextCalls ==
  \/ StartPolling /\ Called("startPolling")
  \/ StopPolling /\ Called("stopPolling")
  \/ RestartPolling /\ Called("restartPolling")
  \/ ResetPolling /\ Called("resetPolling")
  \/ TimerFires /\ Called("timer")
  \/ GraceTimerFires /\ Called("graceTimer")
  \/ FetchResolves /\ Called("resolved")
  \/ FetchRejects /\ Called("rejected")
  \/ Unmount /\ Called("unmount")

SpecCalls == Init /\ [][NextCalls]_vars

\* one caller that starts sessions and lets them run: no stopPolling,
\* resetPolling, restartPolling or unmount from outside
NextSession ==
  \/ StartPolling /\ UNCHANGED <<timeVars, libVars>>
  \/ TimerFires /\ UNCHANGED <<timeVars, libVars>>
  \/ FetchResolves /\ UNCHANGED <<timeVars, libVars>>
  \/ FetchRejects /\ UNCHANGED <<timeVars, libVars>>

InitSession ==
  /\ InitHook
  /\ InitPlanData
  /\ InitPages
  /\ InitTime
  /\ InitLib
  /\ optMaxAttempts \in Attempts

SpecSession == InitSession /\ [][NextSession]_vars

(***************************************************************************)
(* Actions of useMarketingPlanData. initialDelay is 3000 or 5000 ms, the   *)
(* interval 10000 ms or more: React commits a pending render long before  *)
(* any of these timers fires.                                              *)
(***************************************************************************)
RenderPending ==
  /\ isMountedRef
  /\ \/ optionsContinue # continuePolling
     \/ hasValidPlan /\ (continuePolling \/ isLoading \/ isActivePollingRef)

\* one commit: the effect of usePolling stores the new options, then the
\* effect on hasValidPlan runs
Render ==
  /\ RenderPending
  /\ optionsContinue' = continuePolling
  /\ continuePolling' = (continuePolling /\ ~hasValidPlan)
  /\ isLoading' = (isLoading /\ ~hasValidPlan)
  /\ IF hasValidPlan /\ isActivePollingRef
       THEN /\ Commit(stopPolling(Hook))
            /\ stoppedWithTimer' = (stoppedWithTimer \/ timerRef # NoTimer)
       ELSE UNCHANGED <<pollVars, stoppedWithTimer>>
  /\ UNCHANGED <<consecutive404ErrorsRef, error, autoNavigating, hasValidPlan,
                 dataValidationPassedRef, minimumPollingTimeReachedRef,
                 hasNavigatedRef, planStored, saveCalls, setup, lastOutcomes,
                 optMaxAttempts, pageVars>>

\* what getMarketingPlanByDomain may answer
Lookups == {"plan", "none", "error"}

\* checkExistingPlan after its await: the state it sets
checkExistingPlan(p, found) ==
  CASE found = "plan" -> [p EXCEPT !.hasValidPlan = TRUE, !.isLoading = FALSE]
    [] found = "none" -> [p EXCEPT !.continuePolling = TRUE]
    [] OTHER -> [p EXCEPT !.error = "message", !.isLoading = FALSE]

\* a setup that sets the timer of startPolling even when a plan was found
setupAfterLookupAlwaysTimer(found) ==
  IF found = "error" THEN "done" ELSE "timer"

\* checkExistingPlan sets the timer of startPolling only when no plan was found
setupAfterLookup(found) ==
  IF found = "none" THEN "timer" ELSE "done"

\* checkExistingPlan: getMarketingPlanByDomain settles
CheckExistingPlanWith(found) ==
  /\ setup = "checking"
  /\ found = "plan" => planStored
  /\ setup' = setupAfterLookup(found)
  /\ CommitPlan(checkExistingPlan(PlanData, found))
  /\ UNCHANGED <<pollVars, optMaxAttempts, stoppedWithTimer, optionsContinue,
                 minimumPollingTimeReachedRef, lastOutcomes, pageVars>>

CheckExistingPlan == \E found \in Lookups : CheckExistingPlanWith(found)

\* the setTimeout of the initial setup calls polling.startPolling(). It is
\* set after the lookup, for 3000 ms or more, so it is due later than the
\* 3000 ms timer of minimumWaitTimeMs that the mount effect set, unless the
\* unmount cleared that one.
SetupTimerFires ==
  /\ setup = "timer"
  /\ ~RenderPending
  /\ minimumPollingTimeReachedRef \/ ~isMountedRef
  /\ setup' = "done"
  /\ Commit(startPolling(Hook, TRUE, optionsContinue))
  /\ stoppedWithTimer' = FALSE
  /\ UNCHANGED <<consecutive404ErrorsRef, continuePolling, optionsContinue, error,
                 autoNavigating, hasValidPlan, isLoading, dataValidationPassedRef,
                 minimumPollingTimeReachedRef, hasNavigatedRef, planStored,
                 saveCalls,
                 lastOutcomes, optMaxAttempts, pageVars>>

\* the 3-second timer of minimumWaitTimeMs
MinimumTimeElapses ==
  /\ isMountedRef
  /\ ~minimumPollingTimeReachedRef
  /\ minimumPollingTimeReachedRef' = TRUE
  /\ UNCHANGED <<pollVars, optMaxAttempts, stoppedWithTimer, consecutive404ErrorsRef,
                 continuePolling, optionsContinue, error, autoNavigating,
                 hasValidPlan, isLoading, dataValidationPassedRef, hasNavigatedRef,
                 planStored, saveCalls, setup, lastOutcomes, pageVars>>

\* the timer of usePolling fires under the hook's options
PlanTimerFires ==
  /\ timerRef # NoTimer
  /\ ~RenderPending
  /\ Commit(timerCallback(Hook, optionsContinue))
  /\ UNCHANGED <<optMaxAttempts, stoppedWithTimer, appVars>>

\* getAnalysisAnswer settles for a pending attempt: the poll function runs to
\* its return, then executePoll continues with what it returned
PlanFetchSettlesWith(n, reply, saveOk) ==
    /\ pending[n] > 0
    /\ LET outcome == getAnalysisAnswer(reply)
           p == pollingFn(PlanData, outcome, saveOk)
           h == executePollResolved(Hook, n, p.returned, optionsContinue)
       IN /\ Commit(h)
          /\ CommitPlan(IF h.calls.onMaxAttemptsReached > calls.onMaxAttemptsReached
                          THEN onMaxAttemptsReached(p) ELSE p)
          /\ lastOutcomes' = Remember(lastOutcomes, outcomeKind(outcome))
    /\ UNCHANGED <<optMaxAttempts, stoppedWithTimer, optionsContinue,
                   minimumPollingTimeReachedRef, setup, pageVars>>

PlanFetchSettles ==
  \E n \in Attempts, reply \in Replies, saveOk \in BOOLEAN :
    PlanFetchSettlesWith(n, reply, saveOk)

\* the 6-minute timeout, armed while isLoading && !hasValidPlan
HandleTimeout ==
  /\ isMountedRef
  /\ isLoading /\ ~hasValidPlan
  /\ ~RenderPending
  /\ CommitPlan(handleTimeout(PlanData))
  /\ Commit(stopPolling(Hook))
  /\ stoppedWithTimer' = (stoppedWithTimer \/ timerRef # NoTimer)
  /\ UNCHANGED <<optMaxAttempts, optionsContinue, minimumPollingTimeReachedRef,
                 setup, lastOutcomes, pageVars>>

PlanUnmount ==
  /\ isMountedRef
  /\ Commit(unmount(Hook))
  /\ UNCHANGED <<optMaxAttempts, stoppedWithTimer, appVars>>

InitPlan ==
  /\ InitHook
  /\ InitPlanData
  /\ InitPages
  /\ InitTime
  /\ InitLib
  /\ optMaxAttempts = MaxAttemptsBound + 2

NextPlan ==
  \/ Render /\ UNCHANGED <<timeVars, libVars>>
  \/ CheckExistingPlan /\ UNCHANGED <<timeVars, libVars>>
  \/ SetupTimerFires /\ UNCHANGED <<timeVars, libVars>>
  \/ MinimumTimeElapses /\ UNCHANGED <<timeVars, libVars>>
  \/ PlanTimerFires /\ UNCHANGED <<timeVars, libVars>>
  \/ PlanFetchSettles /\ UNCHANGED <<timeVars, libVars>>
  \/ HandleTimeout /\ UNCHANGED <<timeVars, libVars>>
  \/ PlanUnmount /\ UNCHANGED <<timeVars, libVars>>

SpecPlan == InitPlan /\ [][NextPlan]_vars

(***************************************************************************)
(* The same session with its timers on the clock. Every handler runs in no *)
(* time; React commits the render a setter asked for before the clock      *)
(* moves, and that render runs the effect of useTimeout again: handleTimeout*)
(* is rebuilt on every render because the object usePolling returns, one of*)
(* its dependencies, is a new one each time.                               *)
(***************************************************************************)
\* a setter of the mounted component changed state: pollingFn begins with
\* setPollCounter, executePoll stores every result with setState
Rerenders ==
  /\ isMountedRef'
  /\ \/ calls'.pollingFn # calls.pollingFn
     \/ state' # state
     \/ <<continuePolling, error, autoNavigating, hasValidPlan, isLoading>>'
          # <<continuePolling, error, autoNavigating, hasValidPlan, isLoading>>

\* timeoutRef after the handler and the render that follows it
TimeoutRearmed ==
  timeoutRef' =
    IF ~isMountedRef' THEN NoDeadline
    ELSE IF Rerenders THEN useTimeoutEffect(isLoading' /\ ~hasValidPlan', now)
    ELSE timeoutRef

\* the deadline of the timer in timerRef: every timer usePolling sets in
\* this session runs for one tick or less
TimerScheduled ==
  timerDue' =
    IF timerRef' = NoTimer THEN NoDeadline
    ELSE IF timerRef' # timerRef THEN now + 1
    ELSE timerDue

TimedRender ==
  /\ Render
  /\ timeoutRef' = useTimeoutEffect(isLoading' /\ ~hasValidPlan', now)
  /\ TimerScheduled
  /\ UNCHANGED <<now, setupDue, timeoutCalls>>

\* the lookup of the initial setup answers within the first tick
TimedCheckExistingPlan ==
  /\ CheckExistingPlan
  /\ setupDue' = IF setup' = "timer" THEN now + 1 ELSE NoDeadline
  /\ TimeoutRearmed
  /\ UNCHANGED <<now, timerDue, timeoutCalls>>

TimedSetupTimerFires ==
  /\ setupDue = now
  /\ SetupTimerFires
  /\ setupDue' = NoDeadline
  /\ TimerScheduled
  /\ TimeoutRearmed
  /\ UNCHANGED <<now, timeoutCalls>>

TimedMinimumTimeElapses ==
  /\ MinimumTimeElapses
  /\ UNCHANGED timeVars

TimedPlanTimerFires ==
  /\ timerDue = now
  /\ PlanTimerFires
  /\ TimerScheduled
  /\ TimeoutRearmed
  /\ UNCHANGED <<now, setupDue, timeoutCalls>>

\* getAnalysisAnswer may take any time
TimedPlanFetchSettles ==
  /\ PlanFetchSettles
  /\ TimerScheduled
  /\ TimeoutRearmed
  /\ UNCHANGED <<now, setupDue, timeoutCalls>>

\* the timer of useTimeout fires: onTimeout() is handleTimeout
TimeoutFires ==
  /\ timeoutRef = now
  /\ HandleTimeout
  /\ timeoutCalls' = timeoutCalls + 1
  /\ TimerScheduled
  /\ TimeoutRearmed
  /\ UNCHANGED <<now, setupDue>>

\* unmounting runs the cleanup of the effect of useTimeout
TimedPlanUnmount ==
  /\ PlanUnmount
  /\ timeoutRef' = NoDeadline
  /\ TimerScheduled
  /\ UNCHANGED <<now, setupDue, timeoutCalls>>

\* the clock moves when no timer is due and no render is waiting
Tick ==
  /\ now < MaxTime
  /\ setup # "checking"
  /\ ~RenderPending
  /\ now \notin {timeoutRef, setupDue, timerDue}
  /\ now' = now + 1
  /\ UNCHANGED <<pollVars, optMaxAttempts, stoppedWithTimer, appVars,
                 timeoutRef, setupDue, timerDue, timeoutCalls>>

NextTimed ==
  \/ TimedRender /\ UNCHANGED libVars
  \/ TimedCheckExistingPlan /\ UNCHANGED libVars
  \/ TimedSetupTimerFires /\ UNCHANGED libVars
  \/ TimedMinimumTimeElapses /\ UNCHANGED libVars
  \/ TimedPlanTimerFires /\ UNCHANGED libVars
  \/ TimedPlanFetchSettles /\ UNCHANGED libVars
  \/ TimeoutFires /\ UNCHANGED libVars
  \/ TimedPlanUnmount /\ UNCHANGED libVars
  \/ Tick /\ UNCHANGED libVars

SpecTimed == InitPlan /\ [][NextTimed]_vars

(***************************************************************************)
(* Actions of CompetitorStackPage                                          *)
(***************************************************************************)
\* responses that useCompetitorStackData stores with setRawApiData
PageResponses == {RunningResp, CompletedResp, PlanResp}

\* the router mounts a new instance of the page
PageMount(p) ==
  /\ pageStatus[p] = "unopened"
  /\ pageStatus' = [pageStatus EXCEPT ![p] = "mounted"]
  /\ foundAtLoad' = [foundAtLoad EXCEPT ![p] = competitorStack > 0]
  /\ UNCHANGED <<hasSavedRef, rawApiData, hasDbData, storing, storeCalls,
                 latchSkips, competitorStack>>

\* the initial check, a tick of the interval or retryConnection gets a
\* response: setRawApiData(response), then the render runs the save effect
AnalysisResponse(p) ==
  /\ pageStatus[p] = "mounted"
  /\ \E r \in PageResponses :
       CommitPage(p, saveEffect([PageOf(p) EXCEPT !.rawApiData = r]))
  /\ UNCHANGED <<pageStatus, competitorStack>>

\* another dependency of the save effect changes and the effect runs again
SaveEffectReruns(p) ==
  /\ pageStatus[p] = "mounted"
  /\ CommitPage(p, saveEffect(PageOf(p)))
  /\ UNCHANGED <<pageStatus, competitorStack>>

\* storeCompetitorAnalysis settles: the insert added a row, or failed
StoreSettles(p) ==
  /\ storing[p] > 0
  /\ storing' = [storing EXCEPT ![p] = @ - 1]
  /\ \E inserted \in BOOLEAN :
       competitorStack' = IF inserted THEN competitorStack + 1 ELSE competitorStack
  /\ UNCHANGED <<pageStatus, hasSavedRef, rawApiData, hasDbData, storeCalls,
                 latchSkips, foundAtLoad>>

\* pollSupabase finds a row of the domain
PollSupabase(p) ==
  /\ pageStatus[p] = "mounted"
  /\ competitorStack > 0
  /\ CommitPage(p, saveEffect([PageOf(p) EXCEPT !.hasDbData = TRUE]))
  /\ UNCHANGED <<pageStatus, competitorStack>>

PageUnmount(p) ==
  /\ pageStatus[p] = "mounted"
  /\ pageStatus' = [pageStatus EXCEPT ![p] = "unmounted"]
  /\ UNCHANGED <<hasSavedRef, rawApiData, hasDbData, storing, storeCalls,
                 latchSkips, foundAtLoad, competitorStack>>

hookVars == <<pollVars, optMaxAttempts, stoppedWithTimer, planVars>>

NextPage ==
  \E p \in Pages :
    /\ \/ PageMount(p)
       \/ AnalysisResponse(p)
       \/ SaveEffectReruns(p)
       \/ StoreSettles(p)
       \/ PollSupabase(p)
       \/ PageUnmount(p)
    /\ UNCHANGED <<hookVars, timeVars, libVars>>

InitPage ==
  /\ InitHook
  /\ InitPlanData
  /\ InitPages
  /\ InitTime
  /\ InitLib
  /\ optMaxAttempts = 1

SpecPage == InitPage /\ [][NextPage]_vars

\* the page left to run: a pending insert settles, and the 5-second interval
\* of pollSupabase keeps looking the domain up
FairPage ==
  \A p \in Pages :
    /\ WF_vars(StoreSettles(p) /\ UNCHANGED <<hookVars, timeVars, libVars>>)
    /\ WF_vars(PollSupabase(p) /\ UNCHANGED <<hookVars, timeVars, libVars>>)

SpecPageLive == SpecPage /\ FairPage

(***************************************************************************)
(* Calls of the classifiers                                                *)
(***************************************************************************)
hookVarsAtRest ==
  <<pollVars, optMaxAttempts, stoppedWithTimer, appVars, timeVars, stackData,
    logVars>>

restVars == <<hookVarsAtRest, storeVars>>

\* the hooks at rest while a function is called
InitRest ==
  /\ InitHook
  /\ InitPlanData
  /\ InitPages
  /\ InitTime
  /\ InitStore
  /\ InitStackAtRest
  /\ InitLogs
  /\ optMaxAttempts = 1

SampleStatuses == {"running", "succeeded", "completed", "failed"}
SampleTexts == {<<"plan">>, <<"I'm", "Sorry", "unable", "to", "help">>}
SampleSummaries == {"absent", "empty", "nonempty", "string"}
SamplePrograms == {"absent", "emptyArray", "emptyObject", "nonempty", "string"}

\* Object.keys(content).length of a content with these members
KeyCount(s, p, d) ==
  (IF s = "absent" THEN 0 ELSE 1) + (IF p = "absent" THEN 0 ELSE 1)
    + (IF d THEN 1 ELSE 0)

SampleContents ==
  {NoContent, StrContent(<<>>)}
    \cup {StrContent(t) : t \in SampleTexts}
    \cup {ObjContent(t, KeyCount(sp[1], sp[2], d), sp[1], sp[2], d) :
            t \in SampleTexts, sp \in SampleSummaries \X SamplePrograms,
            d \in BOOLEAN}

SampleResponses ==
  {NULL} \cup {Resp(st, "none", c, <<>>) : st \in SampleStatuses, c \in SampleContents}

InitClassify ==
  /\ InitRest
  /\ arg \in SampleResponses
  /\ result = NotCalled

\* one response given to the three classifiers
Classify ==
  /\ result = NotCalled
  /\ result' = [type |-> "verdict",
                complete |-> isAnalysisComplete(arg),
                error |-> containsErrorMessage(arg),
                minimum |-> hasMinimumContent(arg)]
  /\ UNCHANGED <<arg, restVars>>

NextClassify == Classify

SpecClassify == InitClassify /\ [][NextClassify]_vars

(***************************************************************************)
(* Calls of parsePlanData and validatePlanData                             *)
(***************************************************************************)
\* entries of a programs_list given to the parser
MaxPrograms == 2

Absent == [type |-> "absent"]

\* the object that has the members of f that are not Absent
ObjectOf(f) ==
  JsObject([k \in {key \in DOMAIN f : f[key] # Absent} |-> f[k]])

RECURSIVE SeqsUpTo(_, _)
SeqsUpTo(S, n) ==
  IF n = 0 THEN {<<>>}
  ELSE LET shorter == SeqsUpTo(S, n - 1)
       IN shorter \cup {Append(q, x) : q \in shorter, x \in S}

SampleEntries == {NULL, ObjectOf([program_name |-> JsString("text")])}

SampleProgramLists ==
  {Absent, NULL, JsString("text")}
    \cup {JsArray(q) : q \in SeqsUpTo(SampleEntries, MaxPrograms)}
    \cup {ObjectOf([program_1 |-> e1, program_2 |-> e2]) :
            e1 \in SampleEntries \cup {Absent}, e2 \in SampleEntries \cup {Absent}}

SampleCompanySummaries ==
  {Absent, NULL, JsString("text")}
    \cup {ObjectOf([activities |-> a, industry |-> i, target |-> t,
                    target_audience |-> ta]) :
            a \in {Absent, JsString("text"), JsString(" "), JsNumber,
                   JsString(""), NotSpecified},
            i \in {Absent, JsString("other")},
            t \in {Absent, JsString("text"), NotSpecified},
            ta \in {Absent, JsString("other")}}

\* program_1_details of a content, when it has one
SampleDetails == {Absent, ObjectOf([program_name |-> JsString("detail")])}

SamplePlanContents ==
  {ObjectOf([company_summary |-> cs, programs_list |-> pl,
             program_1_details |-> details]) :
     cs \in SampleCompanySummaries, pl \in SampleProgramLists,
     details \in SampleDetails}

\* the content under response.data.content, under content, or as the
\* payload itself; payloads without an object for content
SamplePayloads ==
  {NULL, JsString("text"), JsNumber}
    \cup {ObjectOf([response |-> ObjectOf([data |-> ObjectOf([content |-> c])])]) :
            c \in SamplePlanContents \cup {NULL, JsString("text")}}
    \cup {ObjectOf([content |-> c]) : c \in SamplePlanContents \cup {NULL}}
    \cup SamplePlanContents

InitParse ==
  /\ InitRest
  /\ arg \in SamplePayloads
  /\ result = NotCalled

ParsePlanData ==
  /\ result = NotCalled
  /\ result' = [type |-> "parsed", value |-> parsePlanData(arg)]
  /\ UNCHANGED <<arg, restVars>>

ValidatePlanData ==
  /\ result = NotCalled
  /\ result' = validatePlanData(arg)
  /\ UNCHANGED <<arg, restVars>>

NextParse ==
  \/ ParsePlanData
  \/ ValidatePlanData

SpecParse == InitParse /\ [][NextParse]_vars

(***************************************************************************)
(* Calls of normalizeDomain                                                *)
(***************************************************************************)
\* pieces of a domain string given to normalizeDomain
MaxDomainLen == 4

DomainPieces == {" ", "http:", "HTTP:", "/", "www.", "WWW.", "x", "X"}

SampleDomains == SeqsUpTo(DomainPieces, MaxDomainLen)

InitNormalize ==
  /\ InitRest
  /\ arg \in SampleDomains
  /\ result = NotCalled

keyOf(impl, previous, value, n) ==
  [type |-> "key", impl |-> impl, previous |-> previous, value |-> value,
   calls |-> n]

apply(impl, domain) ==
  IF impl = "domainUtils" THEN normalizeDomain(domain)
  ELSE normalizeDomainOfService(domain)

\* normalizeDomain(s), of either module
NormalizeDomain ==
  /\ result = NotCalled
  /\ \E impl \in {"domainUtils", "marketingPlanService"} :
       result' = keyOf(impl, arg, apply(impl, arg), 1)
  /\ UNCHANGED <<arg, restVars>>

\* the same function given its own result
NormalizeAgain ==
  /\ result.type = "key"
  /\ result.calls = 1
  /\ result' = keyOf(result.impl, result.value, apply(result.impl, result.value), 2)
  /\ UNCHANGED <<arg, restVars>>

NextNormalize ==
  \/ NormalizeDomain
  \/ NormalizeAgain

SpecNormalize == InitNormalize /\ [][NextNormalize]_vars

(***************************************************************************)
(* The interval policy (languageDetection.ts)                              *)
(***************************************************************************)
MaxAttemptNumber == 30

\* a policy whose tiers end one attempt early
getProgressivePollingIntervalStrict(attemptNumber) ==
  IF attemptNumber < 10 THEN 10000
  ELSE IF attemptNumber < 20 THEN 20000
  ELSE 30000

getProgressivePollingInterval(attemptNumber) ==
  IF attemptNumber <= 10 THEN 10000
  ELSE IF attemptNumber <= 20 THEN 20000
  ELSE 30000

AttemptNumbers == (0 - MaxAttemptNumber)..MaxAttemptNumber

InitInterval ==
  /\ InitRest
  /\ arg \in AttemptNumbers
  /\ result = NotCalled

GetProgressivePollingInterval ==
  /\ result = NotCalled
  /\ result' = [type |-> "interval", value |-> getProgressivePollingInterval(arg)]
  /\ UNCHANGED <<arg, restVars>>

NextInterval == GetProgressivePollingInterval

SpecInterval == InitInterval /\ [][NextInterval]_vars

(***************************************************************************)
(* The storage service of the competitor analysis (competitorStackService) *)
(***************************************************************************)
MaxClock == 3

Protocols == {<<>>, <<"http:", "/", "/">>, <<"HTTP:", "/", "/">>}
WwwPrefixes == {<<>>, <<"www.">>, <<"WWW.">>}
PathSuffixes == {<<>>, <<"/", "x">>}
Hosts == {<<"x">>, <<"X">>, <<"www.", "x">>}

\* a host with or without a protocol, a leading www. and a path
Decorated(host) ==
  {p \o w \o host \o s : p \in Protocols, w \in WwwPrefixes, s \in PathSuffixes}

StoreDomains == UNION {Decorated(host) : host \in Hosts}

SampleData == {"a", "b"}

\* the rows .eq("company_domain", key) selects
matching(key) ==
  {i \in 1..Len(competitor_stack) : competitor_stack[i].company_domain = key}

\* .order("created_at", {ascending: false}).limit(1): a row no other
\* selected row comes before
firstByCreatedAtDesc(key) ==
  {i \in matching(key) :
     \A j \in matching(key) :
       competitor_stack[j].created_at <= competitor_stack[i].created_at}

InitStorage ==
  /\ InitRest
  /\ arg = NULL
  /\ result = NotCalled

\* storeCompetitorAnalysis(domain, analysisData): the insert succeeds or the
\* database reports an error. The id the database generates is the position
\* of the row in the order of insertion. Calls are awaited one after another
\* and each takes a round trip, so each new Date() reads a later time.
StoreCompetitorAnalysis ==
  /\ clock < MaxClock
  /\ \E domain \in StoreDomains, analysisData \in SampleData, inserted \in BOOLEAN :
       LET insertData ==
             [id |-> Len(competitor_stack) + 1,
              company_domain |-> normalizeDomain(domain),
              competitors_data |-> analysisData,
              user_language |-> "en",
              created_at |-> clock + 1]
       IN /\ arg' = [op |-> "store", domain |-> domain]
          /\ competitor_stack' =
               IF inserted THEN Append(competitor_stack, insertData)
               ELSE competitor_stack
          /\ result' =
               [type |-> "stored", success |-> inserted,
                record |-> IF inserted THEN insertData ELSE NULL]
  /\ clock' = clock + 1
  /\ UNCHANGED hookVarsAtRest

\* getCompetitorAnalysis(domain): .single() is an error when no row matches
GetCompetitorAnalysis ==
  /\ \E domain \in StoreDomains :
       LET key == normalizeDomain(domain)
       IN /\ arg' = [op |-> "get", domain |-> domain]
          /\ \/ /\ matching(key) = {}
                /\ result' = [type |-> "lookup", success |-> FALSE, data |-> NULL]
             \/ \E i \in firstByCreatedAtDesc(key) :
                  result' = [type |-> "lookup", success |-> TRUE,
                             data |-> competitor_stack[i]]
  /\ UNCHANGED <<storeVars, hookVarsAtRest>>

\* updateCompetitorAnalysis(id, analysisData): an id of no row updates nothing
UpdateCompetitorAnalysis ==
  /\ clock < MaxClock
  /\ \E id \in 1..(Len(competitor_stack) + 1), analysisData \in SampleData :
       /\ arg' = [op |-> "update", id |-> id]
       /\ competitor_stack' =
            [i \in 1..Len(competitor_stack) |->
               IF competitor_stack[i].id = id
                 THEN [competitor_stack[i] EXCEPT
                         !.competitors_data = analysisData,
                         !.created_at = clock + 1]
                 ELSE competitor_stack[i]]
       /\ result' = [type |-> "updated", success |-> TRUE]
  /\ clock' = clock + 1
  /\ UNCHANGED hookVarsAtRest

NextStorage ==
  \/ StoreCompetitorAnalysis
  \/ GetCompetitorAnalysis
  \/ UpdateCompetitorAnalysis

SpecStorage == InitStorage /\ [][NextStorage]_vars

(***************************************************************************)
(* useCompetitorStackData (src/src/hooks/useCompetitorStackData.tsx).      *)
(* data and rawApiData follow hasValidData and the responses and are left  *)
(* out. The 30 of maxAttempts is scaled down to StackMaxAttempts.          *)
(***************************************************************************)
StackMaxAttempts == 4
\* getAnalysisAnswer calls of the interval that may be pending together
MaxStackPending == 2
\* the catch of the interval callback reports from this attempt on
errorReportThreshold == 3

\* React drops the state update of an unmounted component
setStackState(s, next) == IF s.mountedRef THEN next ELSE s

stackStopPolling(s) == [s EXCEPT !.pollingIntervalRef = FALSE]

\* startPolling: setInterval(callback, 10000)
stackStartPolling(s) ==
  IF ~s.conversationId \/ s.pollingIntervalRef THEN s
  ELSE [s EXCEPT !.pollingIntervalRef = TRUE]

\* a response arrived that isAnalysisComplete accepts
stackComplete(s) ==
  setStackState(s, [s EXCEPT !.hasValidData = TRUE, !.isLoading = FALSE])

\* the callback of the interval, up to its await
intervalCallback(s) ==
  IF ~s.mountedRef \/ s.attemptCountRef >= StackMaxAttempts
    THEN LET t == stackStopPolling(s)
         IN IF s.attemptCountRef >= StackMaxAttempts
              THEN setStackState(t, [t EXCEPT !.error = "timeout"])
              ELSE t
  ELSE IF s.pending.poll >= MaxStackPending THEN [s EXCEPT !.blocked = TRUE]
  ELSE [s EXCEPT !.attemptCountRef = @ + 1,
                 !.pending.poll = @ + 1,
                 !.fetches = 1]

\* the callback of the interval after its await
intervalResolved(s0, response) ==
  LET s == [s0 EXCEPT !.pending.poll = @ - 1]
  IN IF isAnalysisComplete(response)
       THEN stackStopPolling(stackComplete(s))
       ELSE s

intervalRejected(s0) ==
  LET s == [s0 EXCEPT !.pending.poll = @ - 1]
  IN IF s.attemptCountRef >= errorReportThreshold
       THEN stackStopPolling(setStackState(s, [s EXCEPT !.error = "message"]))
       ELSE s

\* a retryConnection that does not look at the conversation id
retryConnectionUnguarded(s) ==
  LET t == setStackState(s, [s EXCEPT !.isLoading = TRUE, !.error = "none"])
  IN [t EXCEPT !.attemptCountRef = 0,
               !.pending.retry = @ + 1,
               !.fetches = 1]

\* retryConnection up to its await
retryConnection(s) ==
  IF ~s.conversationId
    THEN setStackState(s, [s EXCEPT !.error = "noConversationId"])
    ELSE LET t == setStackState(s, [s EXCEPT !.isLoading = TRUE, !.error = "none"])
         IN [t EXCEPT !.attemptCountRef = 0,
                      !.pending.retry = @ + 1,
                      !.fetches = 1]

retryResolved(s0, response) ==
  LET s == [s0 EXCEPT !.pending.retry = @ - 1]
  IN IF isAnalysisComplete(response)
       THEN stackStopPolling(stackComplete(s))
       ELSE stackStartPolling(setStackState(s, [s EXCEPT !.isLoading = FALSE]))

retryRejected(s0) ==
  LET s == [s0 EXCEPT !.pending.retry = @ - 1]
  IN setStackState(s, [s EXCEPT !.error = "message", !.isLoading = FALSE])

\* the effect of the mount: the initial check
mountEffect(s0) ==
  LET s == [s0 EXCEPT !.mountedRef = TRUE]
  IN IF s.conversationId
       THEN [s EXCEPT !.isLoading = TRUE, !.error = "none",
                      !.attemptCountRef = 0,
                      !.pending.initial = @ + 1,
                      !.fetches = 1]
       ELSE s

initialResolved(s0, response) ==
  LET s == [s0 EXCEPT !.pending.initial = @ - 1]
  IN IF ~s.mountedRef THEN s
     ELSE IF isAnalysisComplete(response) THEN stackComplete(s)
     ELSE stackStartPolling([s EXCEPT !.isLoading = FALSE])

initialRejected(s0) ==
  LET s == [s0 EXCEPT !.pending.initial = @ - 1]
  IN IF ~s.mountedRef THEN s
     ELSE [s EXCEPT !.error = "message", !.isLoading = FALSE]

\* the cleanup of the effect
stackUnmount(s) == stackStopPolling([s EXCEPT !.mountedRef = FALSE])

\* what the awaited getAnalysisAnswer yields
StackReplies == {RunningReply, CompleteReply, NotFoundReply}

CommitStack(s) ==
  /\ ~s.blocked
  /\ stackData' = s
  /\ UNCHANGED <<pollVars, optMaxAttempts, stoppedWithTimer, appVars, timeVars,
                 arg, result, storeVars, logVars>>

\* the page is rendered with or without a conversation id
InitStack ==
  /\ InitHook
  /\ InitPlanData
  /\ InitPages
  /\ InitTime
  /\ InitStore
  /\ InitLogs
  /\ arg = NULL
  /\ result = NotCalled
  /\ optMaxAttempts = 1
  /\ \E id \in BOOLEAN :
       stackData = mountEffect([UnmountedStack EXCEPT !.conversationId = id])

InitialCheckSettles ==
  /\ stackData.pending.initial > 0
  /\ \E reply \in StackReplies :
       LET response == getAnalysisAnswer(reply)
       IN CommitStack(IF response.type = "error"
                        THEN initialRejected(stackData)
                        ELSE initialResolved(stackData, response))

IntervalFires ==
  /\ stackData.pollingIntervalRef
  /\ CommitStack(intervalCallback(stackData))

IntervalCheckSettles ==
  /\ stackData.pending.poll > 0
  /\ \E reply \in StackReplies :
       LET response == getAnalysisAnswer(reply)
       IN CommitStack(IF response.type = "error"
                        THEN intervalRejected(stackData)
                        ELSE intervalResolved(stackData, response))

RetryConnection ==
  /\ stackData.mountedRef
  /\ stackData.pending.retry = 0
  /\ CommitStack(retryConnection(stackData))

RetrySettles ==
  /\ stackData.pending.retry > 0
  /\ \E reply \in StackReplies :
       LET response == getAnalysisAnswer(reply)
       IN CommitStack(IF response.type = "error"
                        THEN retryRejected(stackData)
                        ELSE retryResolved(stackData, response))

StackStopPolling ==
  /\ stackData.mountedRef
  /\ CommitStack(stackStopPolling(stackData))

StackUnmount ==
  /\ stackData.mountedRef
  /\ CommitStack(stackUnmount(stackData))

\* the poll function of useMarketingPlanData at its first lines: whether it
\* goes on to call getAnalysisAnswer
pollFunctionFetches(conversationIdRef) ==
  IF ~conversationIdRef THEN FALSE ELSE TRUE

\* options.shouldContinuePolling of useMarketingPlanData
shouldContinuePolling(continue, conversationIdRef) ==
  continue /\ conversationIdRef

\* usePolling consults shouldContinuePolling and calls the poll function of
\* useMarketingPlanData, with or without a conversation id in its ref
PlanPollFunction ==
  /\ \E conversationIdRef \in BOOLEAN, continue \in BOOLEAN :
       /\ arg' = [conversationIdRef |-> conversationIdRef,
                  continuePolling |-> continue]
       /\ result' = [type |-> "polled",
                     fetched |-> pollFunctionFetches(conversationIdRef),
                     shouldContinuePolling |->
                       shouldContinuePolling(continue, conversationIdRef)]
  /\ UNCHANGED <<pollVars, optMaxAttempts, stoppedWithTimer, appVars, timeVars,
                 storeVars, stackData, logVars>>

NextStack ==
  \/ PlanPollFunction
  \/ InitialCheckSettles
  \/ IntervalFires
  \/ IntervalCheckSettles
  \/ RetryConnection
  \/ RetrySettles
  \/ StackStopPolling
  \/ StackUnmount

SpecStack == InitStack /\ [][NextStack]_vars

(***************************************************************************)
(* Claims about usePolling                                                 *)
(***************************************************************************)

\* C1: within a polling session that the caller lets run (startPolling, no
\* stopPolling or resetPolling), attempt N+1 is invoked only after attempt N
\* has settled and been recorded: never two invocations pending at a time.
C1_AttemptsDoNotOverlap ==
  /\ NumPending(pending) <= 1
  /\ \A n \in Attempts : pending[n] > 0 => state.attempt = n - 1

\* attempt 2 of a session is in flight
C1_Witness == pending[2] = 1 /\ calls.pollingFn = 2

\* C2: under every interleaving of the caller's calls, the timers and the
\* completions, at most one invocation of the polling function is pending.
C2_AtMostOnePending == NumPending(pending) <= 1

C4_StaleResultDiscarded ==
  [][(isMountedRef /\ ~isActivePollingRef /\ NumPending(pending') < NumPending(pending))
       => UNCHANGED <<state, lastSuccessDataRef, hasSuccessfulResponseRef, calls>>]_vars

\* the session has seen no completed response, no rejection and no false
\* answer of shouldContinuePolling
OnlyRunningSoFar ==
  /\ ~hasSuccessfulResponseRef
  /\ calls.onError = 0
  /\ ~calls.predicateFalse

AtRest == timerRef = NoTimer /\ NumPending(pending) = 0

\* C5: a session in which every fetch resolves non-complete and
\* shouldContinuePolling stays true invokes the polling function exactly
\* maxAttempts times, then has status timeout with onMaxAttemptsReached
\* called once, and nothing is scheduled any more.
C5_TimeoutAfterMaxAttempts ==
  OnlyRunningSoFar =>
    /\ calls.pollingFn <= optMaxAttempts
    /\ calls.onMaxAttemptsReached <= 1
    /\ (AtRest /\ state # IdleState) =>
         (state.status = "timeout" /\ calls.pollingFn = optMaxAttempts)
    /\ state.status = "timeout" =>
         /\ AtRest
         /\ ~isActivePollingRef
         /\ ~state.isPolling
         /\ calls.pollingFn = optMaxAttempts
         /\ calls.onMaxAttemptsReached = 1
    /\ calls.onMaxAttemptsReached = 1 => state.status = "timeout"

C5_Witness ==
  /\ OnlyRunningSoFar
  /\ state.status = "timeout"
  /\ optMaxAttempts = MaxAttemptsBound + 1
  /\ calls.pollingFn = optMaxAttempts

\* C6: when a response is classified complete the status becomes success,
\* onSuccess is called exactly once with that response and the polling
\* function is not invoked again in the session; complete on attempt N means
\* exactly N invocations, so complete on attempt 1 means exactly one.
C6_SuccessStopsSession ==
  /\ calls.onSuccess <= 1
  /\ (calls.onSuccess = 1) = hasSuccessfulResponseRef
  /\ (state.status = "success") = hasSuccessfulResponseRef
  /\ hasSuccessfulResponseRef =>
       /\ isCompletedResponse(state.data)
       /\ calls.onSuccessArg = state.data
       /\ lastSuccessDataRef = state.data
       /\ ~isActivePollingRef
       /\ AtRest
       /\ calls.pollingFn = state.attempt

C6_Witness ==
  /\ state.status = "success"
  /\ state.attempt = 1
  /\ calls.pollingFn = 1
  /\ calls.onSuccess = 1
  /\ state.data = ContentResp

(***************************************************************************)
(* Claims about the poll function of useMarketingPlanData                   *)
(***************************************************************************)
NotFoundKinds == {"noAgentResponse", "generic404"}

\* how many of the last two settled fetches, counted from the latest back,
\* failed with a not-found error
Trailing404s ==
  IF lastOutcomes = <<>> \/ lastOutcomes[Len(lastOutcomes)] \notin NotFoundKinds THEN 0
  ELSE IF Len(lastOutcomes) = 2 /\ lastOutcomes[1] \in NotFoundKinds THEN 2
  ELSE 1

\* this step is a fetch that settles
Settles == NumPending(pending') < NumPending(pending)

\* C7: when the fetch of attempt 1 rejects with "no agent response found",
\* polling stops after that single occurrence: attempt 2 is never issued.
C7_NoAgentResponseStopsAtOnce ==
  lastOutcomes = <<"noAgentResponse">> => pending[2] = 0

\* C8: the poll function gives the conversation up (invalid-conversation
\* error, continuePolling false, no further fetch) only on the second of two
\* consecutive not-found errors; a response or another error in between puts
\* the counter back to 0, and after a single 404 below the attempt cap the
\* next attempt is scheduled.
C8_StopsOnSecondConsecutive404 ==
  /\ [](Trailing404s < 2 => consecutive404ErrorsRef = Trailing404s)
  /\ [](Trailing404s = 2 => consecutive404ErrorsRef >= notFoundErrorThreshold)
  /\ [][(Settles /\ error' = "invalid_conversation") => Trailing404s' = 2]_vars
  /\ [][(Settles /\ isMountedRef /\ Trailing404s' = 2) =>
          (~continuePolling' /\ error' \in {"invalid_conversation", "timeout"})]_vars
  /\ [][(Settles /\ Trailing404s' = 1) =>
          /\ error' # "invalid_conversation"
          /\ (isMountedRef /\ isActivePollingRef /\ optionsContinue
                /\ state'.attempt < optMaxAttempts)
               => /\ continuePolling' = continuePolling
                  /\ isActivePollingRef'
                  /\ timerRef' = NextTimer(state'.attempt + 1)]_vars
  /\ [][(error = "invalid_conversation" /\ ~continuePolling) =>
          calls'.pollingFn = calls.pollingFn]_vars

\* attempts 2 and 3 both failed with a plain 404 and the hook gave up
C8_Witness ==
  /\ lastOutcomes = <<"generic404", "generic404">>
  /\ state.attempt = 3
  /\ error = "invalid_conversation"
  /\ ~continuePolling
  /\ ~isActivePollingRef

\* C9: a response whose content carries an error phrase, even with status
\* 'succeeded', never moves the session to 'success' and never stops it.
C9_EmbeddedErrorKeepsPolling ==
  (lastOutcomes # <<>> /\ lastOutcomes[Len(lastOutcomes)] = "contentError") =>
    /\ state.status # "success"
    /\ (isMountedRef /\ continuePolling /\ optionsContinue
          /\ state.attempt < optMaxAttempts) => isActivePollingRef

(***************************************************************************)
(* Claims about CompetitorStackPage                                        *)
(***************************************************************************)

\* C10: a page session calls storeCompetitorAnalysis at most once however
\* often its save effect runs: hasSavedRef is set with the first call and
\* checked before any other; another page session makes its own call.
C10_SavedAtMostOncePerPage ==
  \A p \in Pages :
    /\ storeCalls[p] <= 1
    /\ hasSavedRef[p] = (storeCalls[p] = 1)
    /\ storing[p] <= storeCalls[p]

\* both sessions saved once, and the first one met its latch afterwards
C10_Witness ==
  /\ storeCalls[1] = 1
  /\ latchSkips[1]
  /\ storeCalls[2] = 1
  /\ competitorStack = 2


(***************************************************************************)
(* Claims about the wall-clock timeout                                     *)
(***************************************************************************)
\* C11: while the plan job is loading without a valid plan, the timer of
\* useTimeout has fired once the clock is past the timeout duration counted
\* from the start of the job, whatever poll attempts and renders happened
\* meanwhile.
C11_TimeoutFiresSixMinutesAfterStart ==
  (isMountedRef /\ isLoading /\ ~hasValidPlan /\ now > TimeoutTicks)
    => timeoutCalls > 0

(***************************************************************************)
(* Claims about the competitor-stack page                                  *)
(***************************************************************************)
\* C12: a page whose analysis completed and whose storeCompetitorAnalysis
\* call settled without a row being written (no row of the domain exists)
\* eventually leaves the loading view and shows the result, unless the user
\* leaves the page first.
C12_ResultShownDespiteFailedSave ==
  \A p \in Pages :
    (pageStatus[p] = "mounted" /\ hasSavedRef[p] /\ storing[p] = 0
       /\ competitorStack = 0)
      ~> (pageStatus[p] # "mounted" \/ renderContent(PageOf(p)) = "results")

(***************************************************************************)
(* Claims about the classifiers                                            *)
(***************************************************************************)
\* C13: isAnalysisComplete answers true only for a response for which
\* containsErrorMessage is false, whose status is 'succeeded' or 'completed'
\* and for which hasMinimumContent is true; a response with an embedded
\* error phrase is not complete, whatever its status.
C13_CompleteOnlyIfCleanTerminalAndShaped ==
  result.type = "verdict" =>
    /\ result.complete =>
         /\ ~result.error
         /\ arg.status \in {"succeeded", "completed"}
         /\ result.minimum
    /\ result.error => ~result.complete

\* a response with status 'completed' and a plan in its content was judged
\* complete
C13_Witness ==
  /\ result.type = "verdict"
  /\ result.complete
  /\ arg.status = "completed"

\* C14: hasMinimumContent answers true for every response whose status is
\* 'succeeded', and for every response whose content has a summary object,
\* a non-empty programs list or map, or a program_<N>_details key.
C14_MinimumContentForSucceededOrShaped ==
  ( /\ result.type = "verdict"
    /\ arg.type = "object"
    /\ \/ arg.status = "succeeded"
       \/ arg.content.summary \in {"empty", "nonempty"}
       \/ arg.content.programs = "nonempty"
       \/ arg.content.details )
    => result.minimum

(***************************************************************************)
(* Claims about the parser                                                 *)
(***************************************************************************)
\* C15: whenever parsePlanData returns a record, its programs_list has at
\* least one entry.
C15_ParsedPlanHasAProgram ==
  (result.type = "parsed" /\ result.value.type = "plan")
    => Len(result.value.programs_list) >= 1

\* C16: parsePlanData does not throw when it is given a JSON object and the
\* content path it takes resolves to an object, whatever the members of that
\* content are.
C16_ParseTotalOnObjectContent ==
  ( /\ result.type = "parsed"
    /\ arg.type = "jsObject"
    /\ getNestedValue(arg, contentPaths).value.type = "jsObject" )
    => result.value.type # "throw"

\* C17: when validatePlanData reports a missing activities/industry or
\* target/target_audience as a field error, it still returns the parsed plan.
C17_FieldErrorsAreAdvisory ==
  ( /\ result.type = "validation"
    /\ \E i \in 1..Len(result.errors) :
         result.errors[i] \in {"company_summary.activities", "company_summary.target"} )
    => result.data # NULL

(***************************************************************************)
(* Claims about keys and storage                                           *)
(***************************************************************************)
\* C18: normalizeDomain given its own result returns it unchanged, for both
\* implementations.
C18_NormalizeDomainIdempotent ==
  (result.type = "key" /\ result.calls = 2) => result.value = result.previous

\* two domains that are the same host, and differ in the letter case, in the
\* protocol, in the path or in a leading www.
DiffersOnlyInDecoration(d, e) ==
  \E host \in Hosts :
    /\ \E k \in Decorated(host) : toLowerCase(k) = toLowerCase(d)
    /\ \E k \in Decorated(host) : toLowerCase(k) = toLowerCase(e)

\* C19: a lookup that follows a successful store, with a domain that differs
\* from the stored one only in letter case, protocol, path or a leading
\* www., finds a record of the key the store wrote.
C19_LookupFindsDecoratedDomain ==
  [][ ( /\ result.type = "stored"
        /\ result.success
        /\ result'.type = "lookup"
        /\ DiffersOnlyInDecoration(arg.domain, arg'.domain) )
      => ( /\ result'.success
           /\ result'.data.company_domain = result.record.company_domain ) ]_vars

\* C20: the row a lookup returns has the greatest created_at of the rows of
\* its key and is the one of them created last, whatever stores and updates
\* came before.
C20_LookupReturnsMostRecentlyCreated ==
  (result.type = "lookup" /\ result.success)
    => \A i \in matching(result.data.company_domain) :
         /\ competitor_stack[i].created_at <= result.data.created_at
         /\ competitor_stack[i].id <= result.data.id

\* C21: storeCompetitorAnalysis called again with the same canonical domain
\* and the same payload, right after a call that succeeded, leaves the
\* table as the first call left it.
C21_SecondSaveLeavesStorageUnchanged ==
  [][ ( /\ result.type = "stored"
        /\ result.success
        /\ result'.type = "stored"
        /\ result'.success
        /\ result'.record.company_domain = result.record.company_domain
        /\ result'.record.competitors_data = result.record.competitors_data )
      => competitor_stack' = competitor_stack ]_vars

(***************************************************************************)
(* Claims about useCompetitorStackData                                     *)
(***************************************************************************)
\* C22: at most one getAnalysisAnswer call issued by the polling of
\* useCompetitorStackData is pending at any time.
C22_StackChecksDoNotOverlap ==
  stackData.pending.poll <= 1

(***************************************************************************)
(* Claims about the caller's operations of usePolling                      *)
(***************************************************************************)
\* C23: when startPolling is called while the session is active or the lock
\* is held, the hook is left exactly as the call found it: timer, flags,
\* snapshot, pending fetches and the count of fetches issued.
C23_StartWhileActiveIsNoOp ==
  (arg = callOf("startPolling") /\ result # NotCalled) => Hook = result

\* startPolling was called in an active session with a fetch in flight
C23_Witness ==
  /\ arg = callOf("startPolling")
  /\ result # NotCalled
  /\ isActivePollingRef
  /\ NumPending(pending) = 1

\* C24: right after resetPolling, called in any state of a mounted hook, no
\* timer is pending, the session is inactive and unlocked, the snapshot is
\* the blank one (idle, not polling, attempt 0, no data, no error, no poll
\* time) and the last-success data and flag are cleared.
C24_ResetReturnsToBlankSlate ==
  (arg = callOf("resetPolling") /\ isMountedRef)
    => /\ timerRef = NoTimer
       /\ ~isActivePollingRef
       /\ ~isLocked
       /\ state = IdleState
       /\ lastSuccessDataRef = NULL
       /\ ~hasSuccessfulResponseRef

\* resetPolling found a timer pending while an earlier fetch was in flight
C24_Witness ==
  /\ arg = callOf("resetPolling")
  /\ isMountedRef
  /\ stoppedWithTimer
  /\ NumPending(pending) = 1

\* C25: a fetch issued for attempt n is the n-th fetch of its session, the
\* first fetch of a session is attempt 1, and the attempt of the snapshot
\* does not decrease when a fetch settles.
C25_AttemptsCountUpFromOne ==
  [][ /\ \A n \in Attempts :
           pending'[n] > pending[n] => calls'.pollingFn = n
      /\ NumPending(pending') < NumPending(pending)
           => state'.attempt >= state.attempt ]_vars

\* C26: while the status is success or timeout, every step other than the
\* caller's startPolling, restartPolling (with its delayed start) and
\* resetPolling leaves the status as it is and issues no fetch; stopPolling
\* is one of these steps.
C26_SuccessAndTimeoutAreTerminal ==
  [][ ( /\ state.status \in {"success", "timeout"}
        /\ arg'.op \notin {"startPolling", "restartPolling", "graceTimer",
                           "resetPolling"} )
      => ( /\ state'.status = state.status
           /\ calls'.pollingFn = calls.pollingFn
           /\ NumPending(pending') <= NumPending(pending) ) ]_vars

\* C27: without a conversation id useCompetitorStackData has issued no
\* getAnalysisAnswer call (initial check, interval or retry) and has set no
\* interval, and the poll function of useMarketingPlanData returns without
\* fetching while its shouldContinuePolling answers false.
C27_NoFetchWithoutConversationId ==
  /\ ~stackData.conversationId
       => /\ stackData.fetches = 0
          /\ ~stackData.pollingIntervalRef
          /\ stackData.pending = UnmountedStack.pending
  /\ (result.type = "polled" /\ ~arg.conversationIdRef)
       => (~result.fetched /\ ~result.shouldContinuePolling)

\* retryConnection was called without a conversation id, and so was the poll
\* function
C27_Witness ==
  /\ ~stackData.conversationId
  /\ stackData.error = "noConversationId"
  /\ result.type = "polled"
  /\ ~arg.conversationIdRef
  /\ arg.continuePolling

(***************************************************************************)
(* Claims about the interval policy and the log buffers                    *)
(***************************************************************************)
\* C28: getProgressivePollingInterval(n) is 10000 for n from 1 to 10, 20000
\* from 11 to 20 and 30000 from 21 on, is not less than its value at any
\* smaller n, and for n <= 0 is its value at 1.
C28_IntervalTiers ==
  result.type = "interval"
    => /\ (1 <= arg /\ arg <= 10) => result.value = 10000
       /\ (11 <= arg /\ arg <= 20) => result.value = 20000
       /\ arg >= 21 => result.value = 30000
       /\ \A m \in AttemptNumbers :
            m <= arg => getProgressivePollingInterval(m) <= result.value
       /\ arg <= 0 => result.value = getProgressivePollingInterval(1)

\* the interval of the first attempt of the third tier
C28_Witness ==
  /\ result.type = "interval"
  /\ arg = 21
  /\ result.value = 30000

\* ---------------------------------------------------------------------
\* The log buffers
\* ---------------------------------------------------------------------

\* the last time an entry is logged at
MaxLogTime == 103

\* the last time a "save" entry is logged at; later entries are "check"
\* entries
MaxSaveTime == 2

\* slice(0, 100) of addLog
apiLogLimit == 100

\* const MAX_LOGS = 50
MAX_LOGS == 50

\* The window of the duplicate test, 2000 ms: one tick of the clock the
\* entries of the log are stamped with.
duplicateWindow == 1

\* everything of the page but the storage and the logs
viewVars ==
  <<pollVars, optMaxAttempts, stoppedWithTimer, appVars, timeVars, stackData>>

\* array.slice(0, n)
slice(logs, n) == SubSeq(logs, 1, IF Len(logs) < n THEN Len(logs) ELSE n)

\* addLog(log): the new entry goes first and the first 100 are kept.
addLog(logs, log) == slice(<<log>> \o logs, apiLogLimit)

\* dbLogs.some(...): an entry with the same operation and data, logged less
\* than the window before the new one.
isDuplicate(logs, log) ==
  \E i \in 1..Len(logs) :
    /\ logs[i].operation = log.operation
    /\ logs[i].data = log.data
    /\ log.timestamp - logs[i].timestamp < duplicateWindow

addDbLogUnbounded(logs, log) ==
  IF isDuplicate(logs, log) THEN logs ELSE <<log>> \o logs

\* addDbLog(log): a duplicate is skipped; otherwise the new entry goes first
\* and the first MAX_LOGS are kept.
addDbLog(logs, log) ==
  IF isDuplicate(logs, log) THEN logs ELSE slice(<<log>> \o logs, MAX_LOGS)

\* A run of the program's logging is followed on one of the two buffers.
InitLogBuffers ==
  /\ InitRest
  /\ arg \in {"apiLogs", "dbLogs"}
  /\ result = NotCalled

\* addLog({timestamp: new Date().toISOString(), ...}): the callers log a
\* request or a response of a network call, each at a later time.
AddLog ==
  /\ arg = "apiLogs"
  /\ clock < MaxLogTime
  /\ clock' = clock + 1
  /\ apiLogs' = addLog(apiLogs, [timestamp |-> clock'])
  /\ result' = [type |-> "logged", added |-> TRUE]
  /\ UNCHANGED <<arg, dbLogs, competitor_stack, viewVars>>

\* addDbLog({timestamp: new Date().toISOString(), operation, data}): within
\* the window of the previous call or after it.
AddDbLog ==
  /\ arg = "dbLogs"
  /\ \E elapsed \in {0, 1}, operation \in {"check", "save"} :
       LET log == [operation |-> operation, data |-> NULL,
                   timestamp |-> clock + elapsed]
       IN /\ clock + elapsed <= MaxLogTime
          /\ operation = "save" => clock + elapsed <= MaxSaveTime
          /\ clock' = clock + elapsed
          /\ dbLogs' = addDbLog(dbLogs, log)
          /\ result' = [type |-> "logged", added |-> ~isDuplicate(dbLogs, log)]
  /\ UNCHANGED <<arg, apiLogs, competitor_stack, viewVars>>

NextLogBuffers ==
  \/ AddLog
  \/ AddDbLog

SpecLogBuffers == InitLogBuffers /\ [][NextLogBuffers]_vars

NewestFirst(logs) ==
  \A i \in 1..Len(logs) : \A j \in i..Len(logs) :
    logs[i].timestamp >= logs[j].timestamp

\* when a full buffer changes, the new entry is first and every entry but
\* the last of the old buffer follows it
DropsOldest(logs, after, limit) ==
  (Len(logs) = limit /\ after # logs) =>
    /\ Len(after) = limit
    /\ after[1].timestamp = clock'
    /\ \A i \in 2..limit : after[i] = logs[i - 1]

\* C29: apiLogs never holds more than 100 entries and dbLogs never more than
\* 50, both are ordered newest first, and an entry added to a full buffer
\* takes the first place while the last, the oldest one, is dropped and all
\* the others are kept.
C29_LogBuffersBoundedDropOldest ==
  /\ [](Len(apiLogs) <= 100 /\ Len(dbLogs) <= 50)
  /\ [](NewestFirst(apiLogs) /\ NewestFirst(dbLogs))
  /\ [][DropsOldest(apiLogs, apiLogs', 100) /\ DropsOldest(dbLogs, dbLogs', 50)]_vars

\* dbLogs is full, entries have been dropped from it and the last call added
\* one
C29_Witness ==
  /\ Len(dbLogs) = 50
  /\ dbLogs[50].timestamp > 2
  /\ result = [type |-> "logged", added |-> TRUE]

(***************************************************************************)
(* startAnalysis                                                           *)
(***************************************************************************)
\* The response bodies: the text the server sent with what JSON.parse makes
\* of it, a value or the SyntaxError it throws.
Bodies ==
  { [text |-> <<>>, parsed |-> Throw(<<"Unexpected end of JSON input">>)],
    [text |-> <<"<html>">>, parsed |-> Throw(<<"Unexpected token <">>)],
    [text |-> <<"null">>, parsed |-> NULL],
    [text |-> <<"42">>, parsed |-> JsNumber],
    [text |-> <<"''">>, parsed |-> JsString(<<>>)],
    [text |-> <<"[]">>, parsed |-> JsArray(<<>>)],
    [text |-> <<"{}">>, parsed |-> JsObject(<<>>)],
    [text |-> <<"{error:'x'}">>,
     parsed |-> JsObject([error |-> JsString(<<"x">>)])],
    [text |-> <<"{conversationSId:null}">>,
     parsed |-> JsObject([conversationSId |-> NULL])],
    [text |-> <<"{conversationSId:42}">>,
     parsed |-> JsObject([conversationSId |-> JsNumber])],
    [text |-> <<"{conversationSId:''}">>,
     parsed |-> JsObject([conversationSId |-> JsString(<<>>)])],
    [text |-> <<"{conversationSId:'c1'}">>,
     parsed |-> JsObject([conversationSId |-> JsString(<<"c1">>)])],
    [text |-> <<"{conversationSId:'c1',error:'x'}">>,
     parsed |-> JsObject([conversationSId |-> JsString(<<"c1">>),
                          error |-> JsString(<<"x">>)])] }

\* JSON.parse(responseText)
JSONparse(text) == (CHOOSE b \in Bodies : b.text = text).parsed

\* response.ok: the status is in the range 200-299
StatusCodes == {"200", "201", "400", "404", "500", "502"}
okOf(status) == status \in {"200", "201"}

\* What the remote side does to the request: fetch rejects, the body cannot
\* be read, or a response arrives.
RemoteOutcomes ==
  {[kind |-> "fetchRejects", error |-> e] :
     e \in {Throw(<<"Failed to fetch">>), Throw(<<>>), JsString(<<"aborted">>)}}
  \cup {[kind |-> "textRejects", status |-> s, error |-> Throw(<<"body stream">>)] :
     s \in StatusCodes}
  \cup {[kind |-> "response", status |-> s, text |-> b.text] :
     s \in StatusCodes, b \in Bodies}

Returned(success, id, reason) ==
  [type |-> "returned", success |-> success, conversationId |-> id,
   error |-> reason]

\* the inner try of startAnalysis: JSON.parse and the read of
\* responseData.conversationSId for the console, which throws a TypeError on
\* null
parsedForLog(text) ==
  LET responseData == JSONparse(text)
  IN IF responseData.type = "throw" THEN responseData
     ELSE IF responseData.type \in {"null", "undefined"}
            THEN Throw(<<"Cannot read properties of null">>)
            ELSE responseData

\* The try block of startAnalysis: what it returns or the value it throws.
startAnalysisTry(outcome) ==
  IF outcome.kind \in {"fetchRejects", "textRejects"} THEN outcome.error
  ELSE
    LET responseText == outcome.text
        responseData == parsedForLog(responseText)
    IN IF responseData.type = "throw"
         THEN Returned(FALSE, Undefined,
                JsString(<<"Invalid response format:">> \o responseText))
       ELSE IF ~okOf(outcome.status)
         THEN Returned(FALSE, Undefined,
                JsString(<<"Server error:", outcome.status>> \o responseText))
       ELSE IF ~Truthy(responseData)
               \/ Get(responseData, "conversationSId").type # "jsString"
         THEN Returned(FALSE, Undefined,
                JsString(<<"Invalid response: missing conversationSId">>))
       ELSE Returned(TRUE, Get(responseData, "conversationSId"), Undefined)

\* startAnalysis(domain): the catch turns whatever the try block throws into
\* a failure.
startAnalysis(outcome) ==
  LET r == startAnalysisTry(outcome)
  IN IF r.type = "returned" THEN r
     ELSE Returned(FALSE, Undefined,
            IF r.type = "throw" THEN JsString(r.message)
            ELSE JsString(<<"Unknown error occurred">>))

\* the entries startAnalysis logs: the request, and the response when its
\* body was read
startAnalysisLogs(outcome, time) ==
  LET request == [timestamp |-> time + 1, type |-> "request",
                  endpoint |-> "start-analysis"]
      response == [timestamp |-> time + 2, type |-> "response",
                   endpoint |-> "start-analysis"]
  IN IF outcome.kind = "response" THEN <<request, response>> ELSE <<request>>

InitStartAnalysis ==
  /\ InitRest
  /\ arg \in RemoteOutcomes
  /\ result = NotCalled

StartAnalysis ==
  /\ result = NotCalled
  /\ result' = startAnalysis(arg)
  /\ LET logs == startAnalysisLogs(arg, clock)
     IN /\ apiLogs' = IF Len(logs) = 2
                        THEN addLog(addLog(apiLogs, logs[1]), logs[2])
                        ELSE addLog(apiLogs, logs[1])
        /\ clock' = clock + Len(logs)
  /\ UNCHANGED <<arg, dbLogs, competitor_stack, viewVars>>

NextStartAnalysis == StartAnalysis

SpecStartAnalysis == InitStartAnalysis /\ [][NextStartAnalysis]_vars

\* C30: whatever the remote side does, startAnalysis returns, and what it
\* returns is either success with a conversationId that is a non-empty
\* string, or failure with an error that is a string.
C30_StartAnalysisSuccessOrReason ==
  result # NotCalled =>
    /\ result.type = "returned"
    /\ \/ /\ result.success
          /\ result.conversationId.type = "jsString"
          /\ result.conversationId.text # <<>>
       \/ /\ ~result.success
          /\ result.error.type = "jsString"

(***************************************************************************)
(* useMarketingPlanData with retryConnection and with the await of         *)
(* saveMarketingPlan as a point where other callbacks run. arg.saving      *)
(* holds the calls of saveMarketingPlan that have not settled, each with   *)
(* the attempt of usePolling that waits for it and the response it saves;  *)
(* arg.retries counts the calls of retryConnection.                        *)
(***************************************************************************)
\* calls of retryConnection a behaviour follows
MaxRetries == 1

\* the poll function from the return of handleSuccessfulPlan on
pollingFnAfterSave(p, outcome, saveOk) ==
  LET r == finishSave(p, saveOk)
  IN [r EXCEPT !.returned =
        IF r.minimumPollingTimeReached /\ r.dataValidationPassed
          THEN outcome ELSE NULL]

\* the poll function reaches the call of saveMarketingPlan with outcome
savesPlan(p, outcome) ==
  /\ outcome.type # "error"
  /\ outcome.status # "failed"
  /\ isAnalysisComplete(outcome)
  /\ reachesSave(p, outcome)

\* retryConnection up to its await of delay(1000)
planRetryConnection(p) ==
  [p EXCEPT !.error = "none",
            !.hasValidPlan = FALSE,
            !.continuePolling = TRUE,
            !.consecutive404Errors = 0,
            !.autoNavigating = FALSE]

InitPlanRetry ==
  /\ InitHook
  /\ InitPlanData
  /\ InitPages
  /\ InitTime
  /\ InitStore
  /\ InitStackAtRest
  /\ InitLogs
  /\ arg = [saving |-> {}, retries |-> 0, found |-> "unknown"]
  /\ result = NotCalled
  /\ optMaxAttempts = MaxAttemptsBound

\* the same session opened when a plan of the domain may be in storage
InitPlanExisting ==
  /\ InitHook
  /\ InitPlanState
  /\ planStored \in BOOLEAN
  /\ InitPages
  /\ InitTime
  /\ InitStore
  /\ InitStackAtRest
  /\ InitLogs
  /\ arg = [saving |-> {}, retries |-> 0, found |-> "unknown"]
  /\ result = NotCalled
  /\ optMaxAttempts = MaxAttemptsBound

retryVars == <<timeVars, result, storeVars, stackData, logVars>>

\* getAnalysisAnswer settles and the poll function returns without saving
PlanFetchSettlesWithoutSave ==
  /\ \E n \in Attempts, reply \in Replies :
       /\ ~savesPlan(PlanData, getAnalysisAnswer(reply))
       /\ PlanFetchSettlesWith(n, reply, TRUE)
  /\ UNCHANGED <<arg, retryVars>>

\* getAnalysisAnswer settles with a complete response and the poll function
\* runs to the await of saveMarketingPlan
PlanSaveBegins ==
  \E n \in Attempts, reply \in Replies :
    LET outcome == getAnalysisAnswer(reply)
    IN /\ pending[n] > 0
       /\ savesPlan(PlanData, outcome)
       /\ CommitPlan(beginSave([PlanData EXCEPT !.consecutive404Errors = 0]))
       /\ Commit([Hook EXCEPT !.pending[n] = @ - 1])
       /\ arg' = [arg EXCEPT !.saving = @ \cup {[attempt |-> n, outcome |-> outcome]}]
       /\ lastOutcomes' = Remember(lastOutcomes, outcomeKind(outcome))
       /\ UNCHANGED <<optMaxAttempts, stoppedWithTimer, optionsContinue,
                      minimumPollingTimeReachedRef, setup, pageVars, retryVars>>

\* saveMarketingPlan settles: handleSuccessfulPlan and the poll function run
\* to their return, then executePoll continues with what was returned
PlanSaveSettles ==
  \E save \in arg.saving, saveOk \in BOOLEAN :
    LET p == pollingFnAfterSave(PlanData, save.outcome, saveOk)
        h == executePollResolved([Hook EXCEPT !.pending[save.attempt] = @ + 1],
                                 save.attempt, p.returned, optionsContinue)
    IN /\ Commit(h)
       /\ CommitPlan(IF h.calls.onMaxAttemptsReached > calls.onMaxAttemptsReached
                       THEN onMaxAttemptsReached(p) ELSE p)
       /\ arg' = [arg EXCEPT !.saving = @ \ {save}]
       /\ UNCHANGED <<optMaxAttempts, stoppedWithTimer, optionsContinue,
                      minimumPollingTimeReachedRef, setup, lastOutcomes,
                      pageVars, retryVars>>

\* the user asks for a retry where the page offers one, after an error:
\* checkExistingPlan settles; arg keeps what the lookup found
PlanLookupSettles ==
  /\ \E found \in Lookups :
       /\ CheckExistingPlanWith(found)
       /\ arg' = [arg EXCEPT !.found = found]
  /\ UNCHANGED retryVars

\* retryConnection runs to its await
PlanRetryConnection ==
  /\ isMountedRef
  /\ setup = "done"
  /\ error # "none"
  /\ arg.retries < MaxRetries
  /\ arg' = [arg EXCEPT !.retries = @ + 1]
  /\ CommitPlan(planRetryConnection(PlanData))
  /\ Commit(resetPolling(Hook))
  /\ setup' = "retry"
  /\ stoppedWithTimer' = (stoppedWithTimer \/ timerRef # NoTimer)
  /\ UNCHANGED <<optMaxAttempts, optionsContinue, minimumPollingTimeReachedRef,
                 lastOutcomes, pageVars, retryVars>>

\* delay(1000) is over and retryConnection calls polling.startPolling(); the
\* fetch that follows its initial delay is issued 4000 ms or more after the
\* retry, later than the 3000 ms timer of minimumWaitTimeMs
PlanRetryStarts ==
  /\ setup = "retry"
  /\ ~RenderPending
  /\ minimumPollingTimeReachedRef \/ ~isMountedRef
  /\ setup' = "done"
  /\ Commit(startPolling(Hook, TRUE, optionsContinue))
  /\ stoppedWithTimer' = FALSE
  /\ UNCHANGED <<consecutive404ErrorsRef, continuePolling, optionsContinue, error,
                 autoNavigating, hasValidPlan, isLoading, dataValidationPassedRef,
                 minimumPollingTimeReachedRef, hasNavigatedRef, planStored,
                 saveCalls, lastOutcomes, optMaxAttempts, pageVars, arg, retryVars>>

NextPlanRetry ==
  \/ Render /\ UNCHANGED <<arg, retryVars>>
  \/ PlanLookupSettles
  \/ SetupTimerFires /\ UNCHANGED <<arg, retryVars>>
  \/ MinimumTimeElapses /\ UNCHANGED <<arg, retryVars>>
  \/ PlanTimerFires /\ UNCHANGED <<arg, retryVars>>
  \/ PlanFetchSettlesWithoutSave
  \/ PlanSaveBegins
  \/ PlanSaveSettles
  \/ PlanRetryConnection
  \/ PlanRetryStarts
  \/ HandleTimeout /\ UNCHANGED <<arg, retryVars>>
  \/ PlanUnmount /\ UNCHANGED <<arg, retryVars>>

SpecPlanRetry == InitPlanRetry /\ [][NextPlanRetry]_vars

SpecPlanExisting == InitPlanExisting /\ [][NextPlanRetry]_vars

(***************************************************************************)
(* The schedule of the plan-generation job: the interval option that      *)
(* useMarketingPlanData hands to usePolling (part_008 363-368) and the     *)
(* timer executePoll sets from it (marketingPlanService.ts 486-497). arg   *)
(* holds the job, result the timer set last. getAnalysisAnswer awaits a    *)
(* fetch, so the render queued by setPollCounter is committed before the   *)
(* poll function returns.                                                  *)
(***************************************************************************)
\* maxAttempts: 30 of the options
planMaxAttempts == 30

\* the options object of one render
pollingOptions(pollCounter) ==
  [interval |-> getProgressivePollingInterval(pollCounter + 1),
   maxAttempts |-> planMaxAttempts]

\* the poll function up to its await: setPollCounter(prevCount => prevCount + 1)
pollingFnStarts(job) ==
  [job EXCEPT !.pollCounter = @ + 1, !.phase = "fetching", !.rendered = FALSE]

\* a render that leaves the interval of the first render in the options
commitRenderStale(job) ==
  [job EXCEPT !.rendered = TRUE]

\* the effect of usePolling after a render: optionsRef.current = options
commitRender(job) ==
  [job EXCEPT !.optionsRef = pollingOptions(job.pollCounter), !.rendered = TRUE]

\* executePoll after the poll function returned: the timer it leaves
timerAfterPoll(job, completed) ==
  IF completed \/ job.attempt >= job.optionsRef.maxAttempts
    THEN [type |-> "finished", attempt |-> job.attempt, delay |-> 0]
    ELSE [type |-> "scheduled", attempt |-> job.attempt + 1,
          delay |-> job.optionsRef.interval]

\* retryConnection: setPollCounter(0), resetPolling(), startPolling()
scheduleRetry(job) ==
  [job EXCEPT !.pollCounter = 0, !.attempt = 1, !.phase = "due",
              !.rendered = FALSE]

InitSchedule ==
  /\ InitRest
  /\ arg = [attempt |-> 1, pollCounter |-> 0, phase |-> "due", rendered |-> TRUE,
            optionsRef |-> pollingOptions(0)]
  /\ result = NotCalled

\* executePoll(attempt) calls the poll function
SchedulePollStarts ==
  /\ arg.phase = "due"
  /\ arg.rendered
  /\ arg' = pollingFnStarts(arg)
  /\ UNCHANGED <<result, restVars>>

ScheduleRender ==
  /\ ~arg.rendered
  /\ arg' = commitRender(arg)
  /\ UNCHANGED <<result, restVars>>

\* the poll function returns, with a complete response or without
SchedulePollSettles ==
  /\ arg.phase = "fetching"
  /\ arg.rendered
  /\ \E completed \in BOOLEAN :
       /\ result' = timerAfterPoll(arg, completed)
       /\ arg' = [arg EXCEPT !.phase = IF result'.type = "scheduled"
                                         THEN "waiting" ELSE "stopped"]
  /\ UNCHANGED restVars

\* the timer fires: executePoll(attempt + 1)
ScheduleTimerFires ==
  /\ arg.phase = "waiting"
  /\ arg' = [arg EXCEPT !.attempt = result.attempt, !.phase = "due"]
  /\ UNCHANGED <<result, restVars>>

ScheduleRetryConnection ==
  /\ arg.phase \in {"waiting", "stopped"}
  /\ arg' = scheduleRetry(arg)
  /\ result' = NotCalled
  /\ UNCHANGED restVars

NextSchedule ==
  \/ SchedulePollStarts
  \/ ScheduleRender
  \/ SchedulePollSettles
  \/ ScheduleTimerFires
  \/ ScheduleRetryConnection

SpecSchedule == InitSchedule /\ [][NextSchedule]_vars

(***************************************************************************)
(* Claims about the hooks' error handling and cancellation                 *)
(***************************************************************************)
\* C31: when pollingFn rejects on attempt n of an active session, the hook
\* returns normally having called onError once and stored the error; below
\* maxAttempts the status is 'error' and the timer of attempt n + 1 is set,
\* at maxAttempts the status is 'timeout', onMaxAttemptsReached is called
\* once, the session ends and no timer is set. No fetch is issued in the
\* step.
C31_RejectionRecordedThenRetriedOrTimedOut ==
  [][(arg' = callOf("rejected") /\ isMountedRef /\ isActivePollingRef) =>
       \A n \in Attempts :
         pending'[n] < pending[n] =>
           /\ calls'.onError = calls.onError + 1
           /\ state'.error \in PollErrors
           /\ state'.attempt = n
           /\ calls'.pollingFn = calls.pollingFn
           /\ n < optMaxAttempts =>
                /\ state'.status = "error"
                /\ state'.isPolling = state.isPolling
                /\ calls'.onMaxAttemptsReached = calls.onMaxAttemptsReached
                /\ isActivePollingRef'
                /\ timerRef' = NextTimer(n + 1)
           /\ n = optMaxAttempts =>
                /\ state'.status = "timeout"
                /\ ~state'.isPolling
                /\ calls'.onMaxAttemptsReached = calls.onMaxAttemptsReached + 1
                /\ ~isActivePollingRef'
                /\ timerRef' = timerRef]_vars

\* every attempt of a session of two or more was rejected, the last one at
\* maxAttempts
C31_Witness ==
  /\ arg = callOf("rejected")
  /\ optMaxAttempts > 1
  /\ calls.onError = optMaxAttempts
  /\ calls.onMaxAttemptsReached = 1
  /\ state.status = "timeout"

\* C32: in a session of useMarketingPlanData saveMarketingPlan is called at
\* most once, however many polls observe a complete response.
C32_PlanSavedAtMostOnce == saveCalls <= 1

\* C33: a page session opened while the table holds a row of its domain
\* never calls storeCompetitorAnalysis.
C33_NoStoreWhenRecordExistsAtLoad ==
  \A p \in Pages : foundAtLoad[p] => storeCalls[p] = 0

\* C34: when a status check of the interval settles after stopPolling() has
\* cleared the interval, or after the unmount, hasValidData and error stay as
\* they were.
C34_SettlingAfterStopChangesNothing ==
  [][(/\ stackData'.pending.poll < stackData.pending.poll
      /\ ~stackData.pollingIntervalRef \/ ~stackData.mountedRef)
     => /\ stackData'.hasValidData = stackData.hasValidData
        /\ stackData'.error = stackData.error]_vars

C36_StopPollingIdempotent ==
  [][arg' = callOf("stopPolling")
     => /\ timerRef' = NoTimer
        /\ ~isActivePollingRef'
        /\ ~isLocked'
        /\ stopPolling(Hook') = Hook'
        /\ arg = callOf("stopPolling") => UNCHANGED pollVars]_vars

\* stopPolling() found the timer of an attempt pending, after a response that
\* was complete
C36_Witness ==
  /\ arg = callOf("stopPolling")
  /\ stoppedWithTimer
  /\ timerRef = NoTimer
  /\ state.status = "success"

C38_IsPollingFollowsStatus ==
  isMountedRef =>
    /\ state.status \in {"idle", "success", "timeout"} => ~state.isPolling
    /\ state.isPolling => isActivePollingRef

\* C39: for a payload whose programs_list is an empty map or an empty array,
\* parsePlanData returns a plan with exactly one program, named
\* "Marketing Program".
C39_EmptyProgramsGivePlaceholder ==
  LET content == getNestedValue(arg, contentPaths).value
      programs == Get(content, "programs_list")
  IN (/\ result.type = "parsed"
      /\ Truthy(arg)
      /\ Truthy(content) /\ typeofObject(content)
      /\ programs \in {JsArray(<<>>), ObjectOf(<<>>)})
     => /\ result.value.type = "plan"
        /\ Len(result.value.programs_list) = 1
        /\ result.value.programs_list[1].program_name = JsString("Marketing Program")

\* C40: activities of the parsed summary is the first of activities and
\* industry that is present, non-empty and not "Not specified", target the
\* first such of target and target_audience; each is "Not specified" only
\* when neither key has such a value.
C40_SummaryTakesFirstUsableAlternate ==
  LET content == getNestedValue(arg, contentPaths).value
      data == Get(content, "company_summary")
      usable(v) == Truthy(v) /\ v # NotSpecified
      firstUsable(a, b) == IF usable(a) THEN a
                           ELSE IF usable(b) THEN b ELSE NotSpecified
  IN (/\ result.type = "parsed"
      /\ result.value.type = "plan"
      /\ Truthy(data) /\ typeofObject(data))
     => /\ result.value.company_summary.activities =
             firstUsable(Get(data, "activities"), Get(data, "industry"))
        /\ result.value.company_summary.target =
             firstUsable(Get(data, "target"), Get(data, "target_audience"))

====
